---- MODULE Spec2Model ----
(***************************************************************************)
(* Model of the incremental HTTP/1.1 request parser of tcp-http-server     *)
(* (internal/request, internal/headers).  Bytes are one-character strings, *)
(* byte slices are sequences of them.                                      *)
(***************************************************************************)
EXTENDS Integers, Sequences, FiniteSets, TLC

\* ------------------------------------------------------------------ bytes

CR == "\r"
LF == "\n"
HT == "\t"
SP == " "
\* The backquote (code 96), which a string literal cannot hold.
BQ == "bq"

\* The printable ASCII characters, code 32 first.
Ascii ==
  <<" ", "!", "\"", "#", "$", "%", "&", "'", "(", ")", "*", "+", ",", "-", ".", "/",
    "0", "1", "2", "3", "4", "5", "6", "7", "8", "9", ":", ";", "<", "=", ">", "?",
    "@", "A", "B", "C", "D", "E", "F", "G", "H", "I", "J", "K", "L", "M", "N", "O",
    "P", "Q", "R", "S", "T", "U", "V", "W", "X", "Y", "Z", "[", "\\", "]", "^", "_",
    BQ, "a", "b", "c", "d", "e", "f", "g", "h", "i", "j", "k", "l", "m", "n", "o",
    "p", "q", "r", "s", "t", "u", "v", "w", "x", "y", "z", "{", "|", "}", "~">>

Byte == {Ascii[i] : i \in 1..Len(Ascii)} \cup {CR, LF, HT}

\* The code of a byte.
Ord ==
  [c \in Byte |->
     IF c = CR THEN 13
     ELSE IF c = LF THEN 10
     ELSE IF c = HT THEN 9
     ELSE 31 + (CHOOSE i \in 1..Len(Ascii) : Ascii[i] = c)]

Chr(n) == Ascii[n - 31]

sepCRLF == <<CR, LF>>
sepSP == <<SP>>

\* bytes.HasPrefix / bytes.HasSuffix
HasPrefix(b, p) == Len(b) >= Len(p) /\ SubSeq(b, 1, Len(p)) = p
HasSuffix(b, p) == Len(b) >= Len(p) /\ SubSeq(b, Len(b) - Len(p) + 1, Len(b)) = p

\* bytes.Index: the number of bytes before the first occurrence of sep, or -1.
RECURSIVE IndexFrom(_, _, _)
IndexFrom(b, sep, i) ==
  IF i + Len(sep) > Len(b) THEN -1
  ELSE IF \A j \in 1..Len(sep) : b[i + j] = sep[j] THEN i
  ELSE IndexFrom(b, sep, i + 1)

Index(b, sep) == IndexFrom(b, sep, 0)

\* bytes.Split / strings.Split on a non-empty separator; i is where it first occurs.
RECURSIVE Split(_, _)
SplitAt(b, sep, i) ==
  IF i = -1 THEN <<b>>
  ELSE <<SubSeq(b, 1, i)>> \o Split(SubSeq(b, i + Len(sep) + 1, Len(b)), sep)

Split(b, sep) == SplitAt(b, sep, Index(b, sep))

\* bytes.SplitN(b, sep, 2)
SplitN2At(b, sep, i) ==
  IF i = -1 THEN <<b>>
  ELSE <<SubSeq(b, 1, i), SubSeq(b, i + Len(sep) + 1, Len(b))>>

SplitN2(b, sep) == SplitN2At(b, sep, Index(b, sep))

\* strings.Cut
CutAt(s, sep, i) ==
  IF i = -1 THEN [before |-> s, after |-> <<>>, found |-> FALSE]
  ELSE [before |-> SubSeq(s, 1, i),
        after |-> SubSeq(s, i + Len(sep) + 1, Len(s)),
        found |-> TRUE]

Cut(s, sep) == CutAt(s, sep, Index(s, sep))

IsSpaceByte(c) == c \in {SP, HT, CR, LF}

\* bytes.TrimSpace; keep is where the bytes that are no white space are.
TrimSpaceTo(b, keep) ==
  IF keep = {} THEN <<>>
  ELSE SubSeq(b, CHOOSE i \in keep : \A j \in keep : i <= j,
                 CHOOSE i \in keep : \A j \in keep : i >= j)

TrimSpace(b) == TrimSpaceTo(b, {i \in 1..Len(b) : ~IsSpaceByte(b[i])})

\* strings.ToLower on ASCII
LowerOf(c, code) == IF code >= 65 /\ code <= 90 THEN Chr(code + 32) ELSE c

ToLower(s) == [i \in 1..Len(s) |-> LowerOf(s[i], Ord[s[i]])]

\* The value of a digit of code ch, 99 when it is none.
DigitValOf(ch) ==
  IF ch >= 48 /\ ch <= 57 THEN ch - 48
  ELSE IF ch >= 97 /\ ch <= 122 THEN ch - 97 + 10
  ELSE IF ch >= 65 /\ ch <= 90 THEN ch - 65 + 10
  ELSE 99

DigitVal(c) == DigitValOf(Ord[c])

RECURSIVE NumVal(_, _)
NumVal(s, base) ==
  IF Len(s) = 0 THEN 0
  ELSE NumVal(SubSeq(s, 1, Len(s) - 1), base) * base + DigitVal(s[Len(s)])

AllDigits(s, base) == Len(s) > 0 /\ \A i \in 1..Len(s) : DigitVal(s[i]) < base

\* strconv.Atoi: an optional sign, then decimal digits.  (The texts of the
\* model are far shorter than the 19 digits at which Atoi reports a range error.)
AtoiDigits(negative, digits) ==
  IF ~AllDigits(digits, 10) THEN [v |-> 0, err |-> "ErrSyntax"]
  ELSE [v |-> IF negative THEN 0 - NumVal(digits, 10) ELSE NumVal(digits, 10), err |-> "nil"]

Atoi(s) ==
  IF Len(s) > 0 /\ s[1] \in {"+", "-"}
  THEN AtoiDigits(s[1] = "-", SubSeq(s, 2, Len(s)))
  ELSE AtoiDigits(FALSE, s)

\* strconv.ParseUint(s, 16, 64): hexadecimal digits only, no sign, no prefix.
ParseUint16(s) ==
  IF ~(AllDigits(s, 16) /\ Len(s) <= 16) THEN [v |-> 0, err |-> "ErrSyntax"]
  ELSE [v |-> NumVal(s, 16), err |-> "nil"]

\* ---------------------------------------------------------------- headers

\* isToken of the headers package, with the character classes as written there.
isTokenByte(c, ch) ==
  \/ (ch >= 65 /\ ch <= 90)
  \/ (ch >= 97 /\ ch <= 122)
  \/ (ch >= 48 /\ ch <= 122)
  \/ c \in {"_", ":", ";", ".", ",", "\\", "/", "\"", "'", "?", "!", "(", ")",
            "{", "}", "[", "]", "@", "<", ">", "=", "-", "+", "*", "#", "$",
            "&", BQ, "|", "~", "^", "%"}

isToken(str) == \A i \in 1..Len(str) : isTokenByte(str[i], Ord[str[i]])

parseHeaderParts(parts) ==
  IF Len(parts) # 2 THEN [name |-> <<>>, value |-> <<>>, err |-> "ErrMalformedHeader"]
  ELSE IF HasSuffix(parts[1], sepSP) \/ HasPrefix(parts[1], sepSP)
       THEN [name |-> <<>>, value |-> <<>>, err |-> "ErrMalformedFieldLine"]
       ELSE [name |-> parts[1], value |-> TrimSpace(parts[2]), err |-> "nil"]

\* The field line is split at every colon.
parseHeader_SplitAll(fieldLine) == parseHeaderParts(Split(fieldLine, <<":">>))

parseHeader(fieldLine) == parseHeaderParts(SplitN2(fieldLine, <<":">>))

\* A header store is a function from lowercased names to values.
NewHeaders == <<>>

GetKey(h, k) ==
  IF k \in DOMAIN h THEN [v |-> h[k], ok |-> TRUE] ELSE [v |-> <<>>, ok |-> FALSE]

Get(h, name) == GetKey(h, ToLower(name))

ReplaceKey(h, k, value) == [n \in DOMAIN h \cup {k} |-> IF n = k THEN value ELSE h[n]]

Replace(h, name, value) == ReplaceKey(h, ToLower(name), value)

\* Set on a present name overwrites its value.
SetKey_Overwrite(h, k, value) == [n \in DOMAIN h \cup {k} |-> IF n = k THEN value ELSE h[n]]

SetKey(h, k, value) ==
  [n \in DOMAIN h \cup {k} |->
     IF n = k THEN (IF k \in DOMAIN h THEN h[k] \o <<",">> \o value ELSE value)
     ELSE h[n]]

Set(h, name, value) == SetKey(h, ToLower(name), value)

\* Headers.Parse: the loop over the field lines of data, from offset read; idx
\* is where the next CRLF is, hdr the field line before it.
RECURSIVE HeadersParseFrom(_, _, _)
HeadersParseField(h, data, read, idx, hdr) ==
  IF hdr.err # "nil" THEN [h |-> h, n |-> 0, done |-> FALSE, err |-> hdr.err]
  ELSE IF ~isToken(hdr.name)
       THEN [h |-> h, n |-> 0, done |-> FALSE, err |-> "ErrMalformedHeaderName"]
  ELSE HeadersParseFrom(Set(h, hdr.name, hdr.value), data, read + idx + Len(sepCRLF))

HeadersParseAt(h, data, read, idx) ==
  IF idx = -1 THEN [h |-> h, n |-> read, done |-> FALSE, err |-> "nil"]
  ELSE IF idx = 0 THEN [h |-> h, n |-> read + Len(sepCRLF), done |-> TRUE, err |-> "nil"]
  ELSE HeadersParseField(h, data, read, idx, parseHeader(SubSeq(data, read + 1, read + idx)))

HeadersParseFrom(h, data, read) ==
  HeadersParseAt(h, data, read, Index(SubSeq(data, read + 1, Len(data)), sepCRLF))

HeadersParse(h, data) == HeadersParseFrom(h, data, 0)

\* ---------------------------------------------------------------- request

NoRequestLine == [HttpVersion |-> <<>>, RequestTarget |-> <<>>, Method |-> <<>>]

newRequest ==
  [state |-> "StateInit",
   RequestLine |-> NoRequestLine,
   Headers |-> NewHeaders,
   Body |-> <<>>,
   Trailer |-> NewHeaders,
   RequestParams |-> <<>>,
   PathParams |-> <<>>]

done(r) == r.state = "StateDone" \/ r.state = "StateError"

getIntValue(num, defaultValue) == IF num.err # "nil" THEN defaultValue ELSE num.v

getIntFound(got, defaultValue) ==
  IF ~got.ok THEN defaultValue ELSE getIntValue(Atoi(got.v), defaultValue)

getInt(h, name, defaultValue) == getIntFound(Get(h, name), defaultValue)

nameContentLength == <<"c", "o", "n", "t", "e", "n", "t", "-", "l", "e", "n", "g", "t", "h">>
nameTransferEncoding == <<"t", "r", "a", "n", "s", "f", "e", "r", "-", "e", "n", "c", "o", "d", "i", "n", "g">>
nameTrailer == <<"T", "r", "a", "i", "l", "e", "r">>
valueChunked == <<"c", "h", "u", "n", "k", "e", "d">>

\* The content length is looked at before the transfer encoding.
getBodyStateOf_LengthFirst(length, chunked) ==
  IF length > 0 THEN "StateBody"
  ELSE IF chunked.ok /\ chunked.v = valueChunked THEN "StateChunkLength"
  ELSE "StateDone"

getBodyStateOf(length, chunked) ==
  IF chunked.ok /\ chunked.v = valueChunked THEN "StateChunkLength"
  ELSE IF length > 0 THEN "StateBody"
  ELSE "StateDone"

getBodyState(r) ==
  getBodyStateOf(getInt(r.Headers, nameContentLength, 0), Get(r.Headers, nameTransferEncoding))

\* parseRequestLine: read is the length of the start line and its CRLF, parts
\* the start line split at the spaces, httpParts its third part split at "/".
parseRequestLineVersion(parts, httpParts, read) ==
  IF Len(httpParts) # 2 \/ httpParts[1] # <<"H", "T", "T", "P">>
  THEN [rl |-> NoRequestLine, n |-> 0, err |-> "ErrMalformedRequestLine"]
  ELSE IF httpParts[2] # <<"1", ".", "1">>
       THEN [rl |-> NoRequestLine, n |-> 0, err |-> "ErrUnsupportedVersion"]
  ELSE [rl |-> [Method |-> parts[1], RequestTarget |-> parts[2], HttpVersion |-> httpParts[2]],
        n |-> read,
        err |-> "nil"]

\* A start line of more than three parts is taken for its first three.
parseRequestLineParts_AtLeastThree(parts, read) ==
  IF Len(parts) < 3 THEN [rl |-> NoRequestLine, n |-> 0, err |-> "ErrMalformedRequestLine"]
  ELSE parseRequestLineVersion(parts, Split(parts[3], <<"/">>), read)

parseRequestLineParts(parts, read) ==
  IF Len(parts) # 3 THEN [rl |-> NoRequestLine, n |-> 0, err |-> "ErrMalformedRequestLine"]
  ELSE parseRequestLineVersion(parts, Split(parts[3], <<"/">>), read)

parseRequestLineAt(b, idx) ==
  IF idx = -1 THEN [rl |-> NoRequestLine, n |-> 0, err |-> "nil"]
  ELSE parseRequestLineParts(Split(SubSeq(b, 1, idx), sepSP), idx + Len(sepCRLF))

parseRequestLine(b) == parseRequestLineAt(b, Index(b, sepCRLF))

parseChunkLengthValue(length, read) ==
  IF length.err # "nil" THEN [n |-> 0, l |-> -1, err |-> length.err]
  ELSE [n |-> read, l |-> length.v, err |-> "nil"]

parseChunkLengthAt(b, idx) ==
  IF idx = -1 THEN [n |-> 0, l |-> -1, err |-> "nil"]
  ELSE parseChunkLengthValue(ParseUint16(SubSeq(b, 1, idx)), idx + Len(sepCRLF))

parseChunkLength(b) == parseChunkLengthAt(b, Index(b, sepCRLF))

parseChunkDataAt(b, r, idx) ==
  IF idx = -1 THEN [r |-> r, n |-> 0]
  ELSE [r |-> [r EXCEPT !.Body = @ \o SubSeq(b, 1, idx)], n |-> idx + Len(sepCRLF)]

parseChunkData(b, r) == parseChunkDataAt(b, r, Index(b, sepCRLF))

\* One pass of the switch in Request.parse on the unparsed bytes currentData:
\* the request after it, the bytes it read, its error, and whether it left the
\* loop.  p is what the parser of the state returned.
caseStateInitOf(r, p) ==
  IF p.err # "nil"
  THEN [r |-> [r EXCEPT !.state = "StateError"], n |-> 0, err |-> p.err, brk |-> FALSE]
  ELSE IF p.n = 0 THEN [r |-> r, n |-> 0, err |-> "nil", brk |-> TRUE]
  ELSE [r |-> [r EXCEPT !.RequestLine = p.rl, !.state = "StateHeaders"],
        n |-> p.n, err |-> "nil", brk |-> FALSE]

caseStateInit(r, currentData) == caseStateInitOf(r, parseRequestLine(currentData))

caseStateHeadersOf(r, p) ==
  IF p.err # "nil"
  THEN [r |-> [r EXCEPT !.Headers = p.h, !.state = "StateError"],
        n |-> 0, err |-> p.err, brk |-> FALSE]
  ELSE IF p.n = 0 THEN [r |-> [r EXCEPT !.Headers = p.h], n |-> 0, err |-> "nil", brk |-> TRUE]
  ELSE [r |-> IF p.done
              THEN [r EXCEPT !.Headers = p.h, !.state = getBodyState([r EXCEPT !.Headers = p.h])]
              ELSE [r EXCEPT !.Headers = p.h],
        n |-> p.n, err |-> "nil", brk |-> FALSE]

caseStateHeaders(r, currentData) == caseStateHeadersOf(r, HeadersParse(r.Headers, currentData))

Min(a, b) == IF a <= b THEN a ELSE b

caseStateBodyOf(r, currentData, length, remaining) ==
  [r |-> [r EXCEPT !.Body = @ \o SubSeq(currentData, 1, remaining),
                   !.state = IF Len(r.Body) + remaining = length THEN "StateDone" ELSE @],
   n |-> remaining, err |-> "nil", brk |-> FALSE]

\* All the unparsed bytes are taken for the body.
caseStateBodyLength_TakeAll(r, currentData, length) ==
  caseStateBodyOf(r, currentData, length, Len(currentData))

caseStateBodyLength(r, currentData, length) ==
  caseStateBodyOf(r, currentData, length, Min(length - Len(r.Body), Len(currentData)))

caseStateBody(r, currentData) ==
  caseStateBodyLength(r, currentData, getInt(r.Headers, nameContentLength, 0))

\* The 0-size chunk always leads to the trailer section.
caseStateChunkLengthOf_TrailerAlways(r, p) ==
  IF p.err # "nil"
  THEN [r |-> [r EXCEPT !.state = "StateError"], n |-> 0, err |-> p.err, brk |-> FALSE]
  ELSE IF p.n = 0 THEN [r |-> r, n |-> 0, err |-> "nil", brk |-> TRUE]
  ELSE [r |-> [r EXCEPT !.state = IF p.l = 0 THEN "StateTrailer" ELSE "StateChunkData"],
        n |-> p.n, err |-> "nil", brk |-> FALSE]

caseStateChunkLengthOf(r, p) ==
  IF p.err # "nil"
  THEN [r |-> [r EXCEPT !.state = "StateError"], n |-> 0, err |-> p.err, brk |-> FALSE]
  ELSE IF p.n = 0 THEN [r |-> r, n |-> 0, err |-> "nil", brk |-> TRUE]
  ELSE [r |-> [r EXCEPT !.state =
                 IF p.l = 0
                 THEN (IF Get(r.Headers, nameTrailer).ok THEN "StateTrailer" ELSE "StateDone")
                 ELSE "StateChunkData"],
        n |-> p.n, err |-> "nil", brk |-> FALSE]

caseStateChunkLength(r, currentData) == caseStateChunkLengthOf(r, parseChunkLength(currentData))

caseStateChunkDataOf(p) ==
  IF p.n = 0 THEN [r |-> p.r, n |-> 0, err |-> "nil", brk |-> TRUE]
  ELSE [r |-> [p.r EXCEPT !.state = "StateChunkLength"], n |-> p.n, err |-> "nil", brk |-> FALSE]

caseStateChunkData(r, currentData) == caseStateChunkDataOf(parseChunkData(currentData, r))

caseStateTrailerOf(r, p) ==
  IF p.err # "nil"
  THEN [r |-> [r EXCEPT !.Trailer = p.h, !.state = "StateError"],
        n |-> 0, err |-> p.err, brk |-> FALSE]
  ELSE IF p.n = 0 THEN [r |-> [r EXCEPT !.Trailer = p.h], n |-> 0, err |-> "nil", brk |-> TRUE]
  ELSE [r |-> IF p.done THEN [r EXCEPT !.Trailer = p.h, !.state = "StateDone"]
              ELSE [r EXCEPT !.Trailer = p.h],
        n |-> p.n, err |-> "nil", brk |-> FALSE]

caseStateTrailer(r, currentData) == caseStateTrailerOf(r, HeadersParse(r.Trailer, currentData))

\* The switch on the state of the parser.
switchState(r, currentData) ==
  CASE r.state = "StateInit" -> caseStateInit(r, currentData)
    [] r.state = "StateHeaders" -> caseStateHeaders(r, currentData)
    [] r.state = "StateBody" -> caseStateBody(r, currentData)
    [] r.state = "StateChunkLength" -> caseStateChunkLength(r, currentData)
    [] r.state = "StateChunkData" -> caseStateChunkData(r, currentData)
    [] r.state = "StateTrailer" -> caseStateTrailer(r, currentData)

\* Request.parse: the loop, with read bytes of data parsed so far.
RECURSIVE parseFrom(_, _, _)
parseAfter(data, read, step) ==
  IF step.err # "nil" THEN [r |-> step.r, n |-> 0, err |-> step.err]
  ELSE IF step.brk THEN [r |-> step.r, n |-> read, err |-> "nil"]
  ELSE parseFrom(step.r, data, read + step.n)

parseFrom(r, data, read) ==
  IF Len(data) - read = 0 THEN [r |-> r, n |-> read, err |-> "nil"]
  ELSE IF r.state = "StateError" THEN [r |-> r, n |-> 0, err |-> "ErrReqInErrState"]
  ELSE IF r.state = "StateDone" THEN [r |-> r, n |-> read, err |-> "nil"]
  ELSE parseAfter(data, read, switchState(r, SubSeq(data, read + 1, Len(data))))

parse(r, data) == parseFrom(r, data, 0)

\* The loop of parseRequestParameters over the tokens of the query string; c is
\* the first of them cut at "=".
RECURSIVE queryParams(_, _)
putParam(params, k, v) == [x \in DOMAIN params \cup {k} |-> IF x = k THEN v ELSE params[x]]

queryParamsCut(params, rest, c) ==
  IF c.found THEN queryParams(putParam(params, c.before, c.after), rest)
  ELSE IF c.before # <<>> THEN queryParams(putParam(params, c.before, <<>>), rest)
  ELSE [params |-> params, err |-> "ErrMalformedRequestLine"]

queryParams(params, queries) ==
  IF Len(queries) = 0 THEN [params |-> params, err |-> "nil"]
  ELSE queryParamsCut(params, SubSeq(queries, 2, Len(queries)), Cut(queries[1], <<"=">>))

parseRequestParametersOf(r, target, i, q) ==
  IF q.err # "nil" THEN [r |-> [r EXCEPT !.RequestParams = q.params], err |-> q.err]
  ELSE [r |-> [r EXCEPT !.RequestParams = q.params,
                        !.RequestLine.RequestTarget = SubSeq(target, 1, i)],
        err |-> "nil"]

parseRequestParametersAt(r, target, i) ==
  IF i # -1 /\ i < Len(target) - 1
  THEN parseRequestParametersOf(r, target, i,
         queryParams(r.RequestParams, Split(SubSeq(target, i + 2, Len(target)), <<"&">>)))
  ELSE [r |-> r, err |-> "nil"]

parseRequestParameters(r) ==
  parseRequestParametersAt(r, r.RequestLine.RequestTarget,
                           Index(r.RequestLine.RequestTarget, <<"?">>))

\* ------------------------------------------------------- RequestFromReader

\* The capacity of the read buffer.
BufCap == 1024

VARIABLES
  input,    \* what the peer sends: start line, field lines, body, as it framed them
  stream,   \* the bytes the reader delivers before it ends
  pos,      \* how many of them it has delivered
  buf,      \* buf[:bufLen], the bytes read and not yet parsed
  request,  \* the Request under construction
  pc,       \* "loop" inside RequestFromReader, "returned" after it
  result    \* what RequestFromReader returned

\* The state of the other components: a header store in use, and a router.
VARIABLES
  headers,  \* a header store, as its callers hold it
  expect,   \* per lowercased name, the values given to it since it was last overwritten
  lastOp,   \* the last call on the store, with what it returned
  wire,     \* the bytes handed to Headers.Parse, or written from the store
  nodes,    \* the route nodes, each at its stable index, the root first
  groups,   \* the Router values: the root router first, then the groups made
  regs,     \* the registrations that succeeded, in call order
  lastReg,  \* the last registration call, with the error it returned
  lookup,   \* the last GetHandler call, with what it returned
  run       \* the dispatch of the handler GetHandler returned

requestVars == <<input, stream, pos, buf, request, pc, result>>
headerVars == <<headers, expect, lastOp, wire>>
routerVars == <<nodes, groups, regs, lastReg, lookup, run>>


\* The state of the response side: a writer over a sink, and a server with the
\* connection it handles.
VARIABLES
  sink,     \* the io.Writer under the response writer: what it was handed and took
  wr,       \* the call on the response writer: its stages, its place, its error
  srv,      \* the Server: its handler, its router, the closed flag, the listener, the loop
  conn      \* the connection handed to handle

writerVars == <<sink, wr>>
serverVars == <<srv, conn>>

vars == <<requestVars, headerVars, routerVars, writerVars, serverVars>>

NoOp == [op |-> "none"]

\* No header store is in use.
HeadersIdle ==
  /\ headers = NewHeaders
  /\ expect = <<>>
  /\ lastOp = NoOp
  /\ wire = <<>>

\* No router is in use.
RouterIdle ==
  /\ nodes = <<>>
  /\ groups = <<>>
  /\ regs = <<>>
  /\ lastReg = NoOp
  /\ lookup = NoOp
  /\ run = NoOp

\* No response writer is in use.
WriterIdle ==
  /\ sink = NoOp
  /\ wr = NoOp

\* No server is running.
ServerIdle ==
  /\ srv = NoOp
  /\ conn = NoOp

Nil == [state |-> "nil"]

\* What the reader reports when it delivers no more: the end of the stream (the
\* peer may stop sending anywhere), or a failed read.
ReadErrors == {"io.EOF", "ECONNRESET"}

\* One iteration of the loop whose reader.Read delivers n bytes: read onto the
\* tail of the buffer, parse, drop the parsed prefix.  filled is the buffer after
\* the read and p what parse returned for it.  (buf is a local of
\* RequestFromReader: it is gone when the function returns.)
ReadParsed_KeepsParsed(n, filled, p) ==
  /\ pos' = pos + n
  /\ request' = p.r
  /\ IF p.err # "nil"
     THEN /\ result' = [req |-> Nil, err |-> p.err]
          /\ pc' = "returned"
          /\ buf' = <<>>
     ELSE /\ buf' = filled
          /\ UNCHANGED <<pc, result>>
  /\ UNCHANGED <<input, stream, headerVars, routerVars, writerVars, serverVars>>

ReadParsed(n, filled, p) ==
  /\ pos' = pos + n
  /\ request' = p.r
  /\ IF p.err # "nil"
     THEN /\ result' = [req |-> Nil, err |-> p.err]
          /\ pc' = "returned"
          /\ buf' = <<>>
     ELSE /\ buf' = SubSeq(filled, p.n + 1, Len(filled))
          /\ UNCHANGED <<pc, result>>
  /\ UNCHANGED <<input, stream, headerVars, routerVars, writerVars, serverVars>>

ReadFilled(n, filled) == ReadParsed(n, filled, parse(request, filled))

ReadBytes(n) == ReadFilled(n, buf \o SubSeq(stream, pos + 1, pos + n))

Read(k) == ReadBytes(Min(k, BufCap - Len(buf)))

\* The sizes of the reads: up to MaxRead bytes, or all the bytes left at once.
MaxRead == 3

ReadSizes == (1..Min(MaxRead, Len(stream) - pos)) \cup ({Len(stream) - pos} \ {0})

ReadStep ==
  /\ pc = "loop"
  /\ ~done(request)
  /\ \E k \in ReadSizes : Read(k)

\* A failed read returns the request parsed so far along with the error.
ReadFail_ReturnsRequest ==
  /\ pc = "loop"
  /\ ~done(request)
  /\ \E e \in ReadErrors : result' = [req |-> request, err |-> e]
  /\ pc' = "returned"
  /\ UNCHANGED <<input, stream, pos, buf, request, headerVars, routerVars, writerVars, serverVars>>

\* reader.Read returns an error: RequestFromReader returns it.
ReadFail ==
  /\ pc = "loop"
  /\ ~done(request)
  /\ \E e \in ReadErrors : result' = [req |-> Nil, err |-> e]
  /\ pc' = "returned"
  /\ UNCHANGED <<input, stream, pos, buf, request, headerVars, routerVars, writerVars, serverVars>>

\* The loop has ended: the query parameters are extracted and the request returned.
FinishWith(q) ==
  /\ result' = IF q.err # "nil" THEN [req |-> Nil, err |-> q.err]
               ELSE [req |-> q.r, err |-> "nil"]
  /\ pc' = "returned"
  /\ UNCHANGED <<input, stream, pos, buf, request, headerVars, routerVars, writerVars, serverVars>>

Finish ==
  /\ pc = "loop"
  /\ done(request)
  /\ FinishWith(parseRequestParameters(request))

Next == ReadStep \/ ReadFail \/ Finish

\* ------------------------------------------------------------------ inputs

RECURSIVE Concat(_)
Concat(ss) == IF Len(ss) = 0 THEN <<>> ELSE ss[1] \o Concat(SubSeq(ss, 2, Len(ss)))

\* A chunked body on the wire: each chunk is its size line, its data and what
\* follows the data; then the last-chunk line, the trailer lines and an empty line.
WireChunks(chunks) ==
  Concat([i \in 1..Len(chunks) |-> chunks[i].size \o sepCRLF \o chunks[i].data \o chunks[i].after])

WireLines(lines) == Concat([i \in 1..Len(lines) |-> lines[i] \o sepCRLF])

\* A field line as the tests write it.
FieldLine(name, value) == name \o <<":", " ">> \o value

Wire(in) ==
  in.line \o sepCRLF \o WireLines(in.fields) \o sepCRLF \o
  (IF in.framing = "chunked"
   THEN WireChunks(in.chunks) \o in.last \o sepCRLF \o
        WireLines([i \in 1..Len(in.trailers) |-> FieldLine(in.trailers[i].name, in.trailers[i].value)])
        \o sepCRLF
   ELSE in.body)

InitWith(inputs) ==
  /\ WriterIdle
  /\ ServerIdle
  /\ input \in inputs
  /\ stream = Wire(input)
  /\ pos = 0
  /\ buf = <<>>
  /\ request = newRequest
  /\ pc = "loop"
  /\ result = [req |-> Nil, err |-> "nil"]
  /\ HeadersIdle
  /\ RouterIdle

\* The longest list of data chunks, and of query tokens, of an input.
MaxChunks == 2
MaxTokens == 2

SeqsUpTo(S, n) == UNION {[1..m -> S] : m \in 0..n}

\* One hexadecimal digit, as a chunk-size line writes it.
Hex(n) == <<IF n < 10 THEN Chr(48 + n) ELSE Chr(97 + n - 10)>>

lineOK == <<"P", " ", "/", " ", "H", "T", "T", "P", "/", "1", ".", "1">>
fieldChunked == FieldLine(<<"T", "r", "a", "n", "s", "f", "e", "r", "-", "E", "n", "c", "o", "d", "i", "n", "g">>, <<"c", "h", "u", "n", "k", "e", "d">>)
fieldTrailer == FieldLine(<<"T", "r", "a", "i", "l", "e", "r">>, <<"X">>)
trailerLine == [name |-> <<"X">>, value |-> <<"y">>]
trailerLine2 == [name |-> <<"Z", "e", "d">>, value |-> <<"w">>]

\* The payloads of the data chunks: plain bytes, CR LF alone, and '!' CR LF.
Payloads == {<<"a">>, <<CR, LF>>, <<"!", CR, LF>>}

\* How the sender frames its chunks: as RFC 7230 says ("ok"), with a chunk
\* extension on every size line ("ext"), without the CRLF after the last data
\* chunk ("nocrlf"), or with a size line that is no hexadecimal number ("badsize").
Forms == {"ok", "ext", "nocrlf", "badsize"}

extension == <<";", "x">>

ChunkOf(data, form, isLast) ==
  [size |-> IF form = "badsize" /\ isLast THEN Hex(Len(data)) \o <<"g">>
            ELSE IF form = "ext" THEN Hex(Len(data)) \o extension
            ELSE Hex(Len(data)),
   data |-> data,
   after |-> IF form = "nocrlf" /\ isLast THEN <<>> ELSE sepCRLF]

\* The trailer sections a sender appends: none, one field line, two field lines.
TrailerCases == {<<>>, <<trailerLine>>, <<trailerLine, trailerLine2>>}

\* What is known of a field the sender may leave out: whether it is there, its
\* text, and the integer the text denotes, if it denotes one.
Absent == [ok |-> FALSE, v |-> <<>>, isInt |-> FALSE, int |-> 0]
Text(v) == [ok |-> TRUE, v |-> v, isInt |-> FALSE, int |-> 0]
Number(v, n) == [ok |-> TRUE, v |-> v, isInt |-> TRUE, int |-> n]

\* An input: the bytes of its parts, and what the sender meant by them.
BaseInput ==
  [line |-> lineOK, shape |-> "ok", version |-> [text |-> <<>>, kind |-> "ok"],
   path |-> <<"/">>, query |-> FALSE, tokens |-> <<>>,
   fields |-> <<>>, te |-> Absent, cl |-> Absent,
   framing |-> "plain", body |-> <<>>,
   chunks |-> <<>>, last |-> <<>>, trailers |-> <<>>, form |-> "ok", declared |-> FALSE]

ChunkedInput(payloads, form, declared, trailers) ==
  [BaseInput EXCEPT
     !.fields = IF declared THEN <<fieldChunked, fieldTrailer>> ELSE <<fieldChunked>>,
     !.te = Text(valueChunked),
     !.framing = "chunked",
     !.chunks = [i \in 1..Len(payloads) |-> ChunkOf(payloads[i], form, i = Len(payloads))],
     !.last = IF form = "ext" THEN <<"0">> \o extension ELSE <<"0">>,
     !.trailers = trailers,
     !.form = form,
     !.declared = declared]

ChunkedInputs ==
  {ChunkedInput(ps, form, declared, trailers) :
     ps \in SeqsUpTo(Payloads, MaxChunks), form \in {"ok", "ext"},
     declared \in BOOLEAN, trailers \in TrailerCases}
  \cup
  {ChunkedInput(ps, form, FALSE, <<>>) :
     ps \in SeqsUpTo(Payloads, MaxChunks) \ {<<>>}, form \in {"nocrlf", "badsize"}}

Init == InitWith(ChunkedInputs)

Spec == Init /\ [][Next]_vars

\* Requests framed by their header fields: every Transfer-Encoding with every
\* Content-Length, the body shorter than, as long as, and longer than declared.
nameTE == <<"T", "r", "a", "n", "s", "f", "e", "r", "-", "E", "n", "c", "o", "d", "i", "n", "g">>
nameCL == <<"C", "o", "n", "t", "e", "n", "t", "-", "L", "e", "n", "g", "t", "h">>
lineGet == <<"G", " ", "/", " ", "H", "T", "T", "P", "/", "1", ".", "1">>

TECases == {Absent, Text(valueChunked), Text(<<"g", "z", "i", "p">>), Text(<<"C", "h", "u", "n", "k", "e", "d">>)}

CLCases ==
  {Absent, Number(<<"2">>, 2), Number(<<"0">>, 0), Number(<<"+", "1">>, 1),
   Number(<<"-", "1">>, -1), Text(<<"x">>)}

Bodies == {<<>>, <<"a">>, <<"a", "b">>, <<"a", "b", "c">>, <<"0", CR, LF, CR, LF>>}

FieldOf(name, c) == IF c.ok THEN <<FieldLine(name, c.v)>> ELSE <<>>

FramedInput(te, cl, body) ==
  [BaseInput EXCEPT
     !.line = lineGet,
     !.fields = FieldOf(nameTE, te) \o FieldOf(nameCL, cl),
     !.te = te,
     !.cl = cl,
     !.body = body]

FramedInputs == {FramedInput(te, cl, body) : te \in TECases, cl \in CLCases, body \in Bodies}

InitFraming == InitWith(FramedInputs)

SpecFraming == InitFraming /\ [][Next]_vars

\* Start lines.  A query token is its text and what it means: its key, its
\* value, and whether it is the empty token, which is no parameter.
Token(text, key, value) == [text |-> text, key |-> key, value |-> value, bad |-> FALSE]

TokenCases ==
  {[text |-> <<>>, key |-> <<>>, value |-> <<>>, bad |-> TRUE],
   Token(<<"x">>, <<"x">>, <<>>),
   Token(<<"x", "=", "1">>, <<"x">>, <<"1">>),
   Token(<<"x", "=", "2">>, <<"x">>, <<"2">>),
   Token(<<"y", "=", "a", "=", "b">>, <<"y">>, <<"a", "=", "b">>),
   Token(<<"=", "v">>, <<>>, <<"v">>)}

RECURSIVE Join(_, _)
Join(ss, sep) ==
  IF Len(ss) = 0 THEN <<>>
  ELSE IF Len(ss) = 1 THEN ss[1]
  ELSE ss[1] \o sep \o Join(SubSeq(ss, 2, Len(ss)), sep)

pathA == <<"/", "a">>

Target(path, query, tokens) ==
  IF query THEN path \o <<"?">> \o Join([i \in 1..Len(tokens) |-> tokens[i].text], <<"&">>)
  ELSE path

\* The third token of a start line, and how it reads: HTTP/1.1 ("ok"), HTTP/<v>
\* with another <v> ("other"), or not of the form HTTP/<v> ("notHTTP").
Version(text, kind) == [text |-> text, kind |-> kind]

version11 == Version(<<"H", "T", "T", "P", "/", "1", ".", "1">>, "ok")

Versions ==
  {version11, Version(<<"H", "T", "T", "P", "/", "1", ".", "0">>, "other"), Version(<<"H", "T", "T", "P", "/", "2", ".", "0">>, "other"), Version(<<"H", "T", "T", "P", "/">>, "other"),
   Version(<<"H", "T", "T", "X", "/", "1", ".", "1">>, "notHTTP"), Version(<<"h", "t", "t", "p", "/", "1", ".", "1">>, "notHTTP"), Version(<<"H", "T", "T", "P", "1", ".", "1">>, "notHTTP"),
   Version(<<"H", "T", "T", "P", "/", "1", "/", "1">>, "notHTTP")}

\* The shapes of a start line: method, target and version ("ok"), no method
\* ("two"), a token more before or after the version ("four", "trail"), two
\* spaces after the method ("dblsp").
Shapes == {"ok", "two", "four", "trail", "dblsp"}

methodG == <<"G">>

LineOf(shape, target, ver) ==
  CASE shape = "ok" -> methodG \o sepSP \o target \o sepSP \o ver
    [] shape = "two" -> target \o sepSP \o ver
    [] shape = "four" -> methodG \o sepSP \o target \o sepSP \o <<"x">> \o sepSP \o ver
    [] shape = "trail" -> methodG \o sepSP \o target \o sepSP \o ver \o sepSP \o <<"x">>
    [] shape = "dblsp" -> methodG \o sepSP \o sepSP \o target \o sepSP \o ver

LineInput(shape, ver, query, tokens) ==
  [BaseInput EXCEPT
     !.line = LineOf(shape, Target(pathA, query, tokens), ver.text),
     !.shape = shape,
     !.version = ver,
     !.path = pathA,
     !.query = query,
     !.tokens = tokens]

LineInputs ==
  {LineInput(shape, ver, FALSE, <<>>) : shape \in Shapes, ver \in Versions}
  \cup
  {LineInput("ok", version11, TRUE, tokens) : tokens \in SeqsUpTo(TokenCases, MaxTokens) \ {<<>>}}

InitLine == InitWith(LineInputs)

SpecLine == InitLine /\ [][Next]_vars

\* ------------------------------------------------------------------ claims

\* The reader failed before it had delivered all the bytes of the input.
ReaderFailedEarly == result.err \in ReadErrors /\ pos < Len(stream)

\* RequestFromReader has returned, the whole input having been there to read.
Returned == pc = "returned" /\ ~ReaderFailedEarly

\* A chunk-size line up to its extensions.
SizePrefix(sizeLine) == Cut(sizeLine, <<";">>).before

HasExtensions(in) ==
  \/ Index(in.last, <<";">>) # -1
  \/ \E i \in 1..Len(in.chunks) : Index(in.chunks[i].size, <<";">>) # -1

\* The chunked framing of RFC 7230: every size line gives the length of its data
\* in hexadecimal, the data is followed by CRLF, the last chunk has size 0.
WellFormedChunked(in) ==
  /\ in.framing = "chunked"
  /\ SizePrefix(in.last) = <<"0">>
  /\ \A i \in 1..Len(in.chunks) :
       /\ SizePrefix(in.chunks[i].size) = Hex(Len(in.chunks[i].data))
       /\ in.chunks[i].after = sepCRLF

PayloadOf(in) == Concat([i \in 1..Len(in.chunks) |-> in.chunks[i].data])

CRLFInPayload(in) == \E i \in 1..Len(in.chunks) : Index(in.chunks[i].data, sepCRLF) # -1

\* What RequestFromReader returns when its first read delivers all of b.
OneReadParams(q) ==
  IF q.err # "nil" THEN [req |-> Nil, err |-> q.err] ELSE [req |-> q.r, err |-> "nil"]

OneReadParsed(p) ==
  IF p.err # "nil" THEN [req |-> Nil, err |-> p.err]
  ELSE IF ~done(p.r) THEN [req |-> Nil, err |-> "io.EOF"]
  ELSE OneReadParams(parseRequestParameters(p.r))

OneRead(b) == OneReadParsed(parse(newRequest, b))

SameOutcome(one) ==
  /\ result.req = one.req
  /\ IF result.err \in ReadErrors THEN one.err = "io.EOF" ELSE result.err = one.err

\* Whatever the input, well-formed or not, every fragmentation of it has the
\* outcome of the single read (a failed read counting as the end of the stream).
FragmentationAgreement == Returned => SameOutcome(OneRead(stream))

\* C1: for every well-formed request and every split of its bytes into reads,
\* RequestFromReader returns no error and the Request of the single read.
C1_FragmentationInvariance ==
  (Returned /\ WellFormedChunked(input)) =>
    /\ result.err = "nil"
    /\ result = OneRead(stream)

\* C2: chunk data is taken by length: the body of a well-formed chunked request
\* (here without chunk extensions) is the concatenation of the chunk payloads,
\* also when a payload holds CR LF.
C2_BodyIsPayload ==
  (Returned /\ WellFormedChunked(input) /\ ~HasExtensions(input)) =>
    /\ result.err = "nil"
    /\ result.req.Body = PayloadOf(input)

\* C3: data not followed by CRLF, and a size line that is no hexadecimal number,
\* are rejected with MalformedChunkedBody, whatever the fragmentation.
C3_MalformedChunkedBody ==
  (Returned /\ input.form \in {"nocrlf", "badsize"}) =>
    /\ result.err = "ErrMalformedChunkedBody"
    /\ result.req = Nil

\* C9: chunk extensions are ignored: a request whose size lines carry extensions
\* (and whose payloads hold no CR LF) parses to the body of its payloads.
C9_ExtensionsIgnored ==
  (Returned /\ WellFormedChunked(input) /\ HasExtensions(input) /\ ~CRLFInPayload(input)) =>
    /\ result.err = "nil"
    /\ result.req.Body = PayloadOf(input)

\* The store that holds the field lines ts, their names being distinct.
StoreOf(ts) ==
  [n \in {ToLower(ts[i].name) : i \in 1..Len(ts)} |->
     ts[CHOOSE i \in 1..Len(ts) : ToLower(ts[i].name) = n].value]

\* C8: after the 0-size chunk the parser is in Trailer only if the request
\* declared a Trailer header; it then stores every field line up to the empty
\* line, which it consumes before Done; without the declaration the trailer
\* store stays empty, field lines after the last chunk or not.
C8_TrailerHandling ==
  /\ request.state = "StateTrailer" => input.declared
  /\ ~input.declared =>
       /\ request.Trailer = NewHeaders
       /\ (pc = "returned" /\ result.err = "nil") => result.req.Trailer = NewHeaders
  /\ (input.declared /\ request.state = "StateDone") =>
       /\ pos = Len(stream)
       /\ buf = <<>>
       /\ request.Trailer = StoreOf(input.trailers)
  /\ (input.declared /\ pc = "returned" /\ result.err = "nil") =>
       result.req.Trailer = StoreOf(input.trailers)

\* A declared trailer section of two field lines has been parsed and returned.
C8_Witness ==
  /\ pc = "returned"
  /\ result.err = "nil"
  /\ input.declared
  /\ Len(input.trailers) = 2
  /\ Len(result.req.Body) > 0
  /\ DOMAIN result.req.Trailer = {<<"x">>, <<"z", "e", "d">>}

\* Field lines follow the last chunk of a request that declared no trailer, and
\* the request is returned with its trailer store empty.
C8_WitnessUndeclared ==
  /\ pc = "returned"
  /\ result.err = "nil"
  /\ ~input.declared
  /\ Len(input.trailers) = 2
  /\ result.req.Trailer = NewHeaders

\* The body framing the sender declared, in the order of the framing policy.
Chunked(in) == in.te.ok /\ in.te.v = valueChunked

Policy(in) ==
  IF Chunked(in) THEN "StateChunkLength"
  ELSE IF in.cl.isInt /\ in.cl.int > 0 THEN "StateBody"
  ELSE "StateDone"

\* The states a parser can be in once it has left the header block for state s.
StatesFrom(s) ==
  CASE s = "StateChunkLength" ->
         {"StateChunkLength", "StateChunkData", "StateTrailer", "StateDone", "StateError"}
    [] s = "StateBody" -> {"StateBody", "StateDone"}
    [] s = "StateDone" -> {"StateDone"}

\* The bytes of the stream that are not parsed yet.
Unparsed == buf \o SubSeq(stream, pos + 1, Len(stream))

HeaderLen == Len(stream) - Len(input.body)

LeavesHeadersFor(step, s) == step.err = "nil" /\ step.r.state = s

\* C4: when the header block ends the parser goes to ChunkLength if
\* transfer-encoding is exactly "chunked", a content-length present or not;
\* otherwise to Body if content-length is a positive decimal integer; otherwise
\* to Done, the body empty.
C4_FramingPolicy ==
  /\ request.state = "StateHeaders" =>
       LeavesHeadersFor(caseStateHeaders(request, Unparsed), Policy(input))
  /\ request.state \notin {"StateInit", "StateHeaders"} =>
       request.state \in StatesFrom(Policy(input))
  /\ Policy(input) = "StateDone" => request.Body = <<>>

\* A chunked request that also declares a content length of 2 is read as
\* chunked: its last chunk ends it, with an empty body.
C4_Witness ==
  /\ pc = "returned"
  /\ result.err = "nil"
  /\ Chunked(input)
  /\ input.cl.int = 2
  /\ input.body = <<"0", CR, LF, CR, LF>>
  /\ pos = Len(stream)
  /\ result.req.Body = <<>>

\* C5: with a declared content length the body never grows beyond it, it is
\* the bytes delivered after the header block whatever the reads were, the
\* parser is Done exactly when the body has the declared length, and the bytes
\* after the declared length are not in the body.
C5_BodyAccumulation ==
  Policy(input) = "StateBody" =>
    /\ Len(request.Body) <= input.cl.int
    /\ request.state = "StateBody" =>
         /\ Len(request.Body) < input.cl.int
         /\ pos >= HeaderLen
         /\ request.Body = SubSeq(input.body, 1, pos - HeaderLen)
         /\ buf = <<>>
    /\ request.state = "StateDone" =>
         /\ Len(request.Body) = input.cl.int
         /\ request.Body = SubSeq(input.body, 1, input.cl.int)
    /\ (pc = "returned" /\ result.err = "nil") =>
         result.req.Body = SubSeq(input.body, 1, input.cl.int)

\* A body of three bytes with a declared length of two, its last two bytes
\* read together: the request is returned with the first two, the third is
\* left in the buffer.
C5_Witness ==
  /\ pc = "returned"
  /\ result.err = "nil"
  /\ Policy(input) = "StateBody"
  /\ input.body = <<"a", "b", "c">>
  /\ result.req.Body = <<"a", "b">>
  /\ buf = <<"c">>

\* The body is shorter than the declared content length.
ShortBody(in) == Policy(in) = "StateBody" /\ Len(in.body) < in.cl.int

\* C6: a read that fails while the parser is not Done makes RequestFromReader
\* return the error of the read and no Request; a body shorter than the
\* declared content length leaves the parser waiting in Body when the stream
\* ends, so that the request ends with the error of the reader.
C6_PrematureEnd ==
  /\ (pc = "returned" /\ result.err \in ReadErrors) =>
       /\ result.req = Nil
       /\ request.state # "StateDone"
  /\ (pc = "returned" /\ request.state \notin {"StateDone", "StateError"}) =>
       /\ result.req = Nil
       /\ result.err \in ReadErrors
  /\ (ShortBody(input) /\ pos = Len(stream)) =>
       /\ request.state = "StateBody"
       /\ pc = "returned" => (result.req = Nil /\ result.err \in ReadErrors)

\* The stream ends one byte short of the declared content length, and
\* RequestFromReader returns io.EOF.
C6_Witness ==
  /\ pc = "returned"
  /\ result = [req |-> Nil, err |-> "io.EOF"]
  /\ ShortBody(input)
  /\ pos = Len(stream)
  /\ request.Body = <<"a">>


\* The number of tokens between the single spaces of a start line of a shape.
TokenCount(shape) ==
  CASE shape = "ok" -> 3
    [] shape = "two" -> 2
    [] shape \in {"four", "trail", "dblsp"} -> 4

Delivered == SubSeq(stream, 1, pos)

\* The CRLF that ends the start line has been delivered.
LineSeen == Index(Delivered, sepCRLF) # -1

\* The start line was refused: the parser is in Error, no request line stored.
Refused(err) ==
  /\ pc = "returned"
  /\ result.req = Nil
  /\ result.err \in err
  /\ request.state = "StateError"
  /\ request.RequestLine = NoRequestLine

\* C7: a start line that is not three tokens between single spaces yields
\* MalformedRequestLine; a third token HTTP/<v>, <v> not 1.1, yields
\* UnsupportedVersion; a third token of another form is refused too; only an
\* accepted line is stored and takes the parser from Init to Headers; until its
\* CRLF is there nothing is consumed and the state stays Init.
C7_RequestLineValidation ==
  /\ (pc = "loop" /\ ~LineSeen) =>
       /\ request.state = "StateInit"
       /\ request.RequestLine = NoRequestLine
       /\ buf = Delivered
  /\ (LineSeen /\ TokenCount(input.shape) # 3) => Refused({"ErrMalformedRequestLine"})
  /\ (LineSeen /\ TokenCount(input.shape) = 3 /\ input.version.kind = "other") =>
       Refused({"ErrUnsupportedVersion"})
  /\ (LineSeen /\ TokenCount(input.shape) = 3 /\ input.version.kind = "notHTTP") =>
       Refused({"ErrMalformedRequestLine", "ErrUnsupportedVersion"})
  /\ (LineSeen /\ TokenCount(input.shape) = 3 /\ input.version.kind = "ok") =>
       /\ request.state \notin {"StateInit", "StateError"}
       /\ request.RequestLine =
            [Method |-> methodG,
             RequestTarget |-> Target(input.path, input.query, input.tokens),
             HttpVersion |-> <<"1", ".", "1">>]
  /\ request.state \notin {"StateInit", "StateError"} =>
       (TokenCount(input.shape) = 3 /\ input.version.kind = "ok")

\* A start line with a token after HTTP/1.1 has been refused as malformed.
C7_Witness ==
  /\ input.shape = "trail"
  /\ input.version.kind = "ok"
  /\ Refused({"ErrMalformedRequestLine"})

\* The query parameters a list of tokens means: the value of a key is that of
\* the last token with the key.
ParamsOf(tokens) ==
  [k \in {tokens[i].key : i \in 1..Len(tokens)} |->
     tokens[CHOOSE i \in 1..Len(tokens) :
              /\ tokens[i].key = k
              /\ \A j \in (i + 1)..Len(tokens) : tokens[j].key # k].value]

\* C10: a request whose target holds '?' is returned with the parameters of
\* the tokens after it and with its target cut before the '?'; if one of the
\* tokens is empty, RequestFromReader returns MalformedRequestLine.
C10_QueryParameters ==
  (pc = "returned" /\ result.err \notin ReadErrors /\ input.query) =>
    IF \E i \in 1..Len(input.tokens) : input.tokens[i].bad
    THEN result = [req |-> Nil, err |-> "ErrMalformedRequestLine"]
    ELSE /\ result.err = "nil"
         /\ result.req.RequestParams = ParamsOf(input.tokens)
         /\ result.req.RequestLine.RequestTarget = input.path
         /\ Index(result.req.RequestLine.RequestTarget, <<"?">>) = -1

\* C10 for the targets that have something after the '?'.
C10_QueryParametersNonEmpty ==
  (input.tokens # <<[text |-> <<>>, key |-> <<>>, value |-> <<>>, bad |-> TRUE]>>) =>
    C10_QueryParameters


\* ------------------------------------------------------------ header store

\* A name as a caller writes it, and the lowercased name it stands for.
Name(text, lower) == [text |-> text, lower |-> lower]

NameCases ==
  {Name(<<"A", "b">>, <<"a", "b">>), Name(<<"a", "B">>, <<"a", "b">>), Name(<<"A", "B">>, <<"a", "b">>), Name(<<"C", "-", "d">>, <<"c", "-", "d">>)}

StoreValues == {<<"1">>, <<"a", ":", "b">>}

\* The most values the callers give to the store.
MaxValues == 3

RECURSIVE SumLen(_, _)
SumLen(f, keys) ==
  IF keys = {} THEN 0
  ELSE Len(f[CHOOSE k \in keys : TRUE]) + SumLen(f, keys \ {CHOOSE k \in keys : TRUE})

\* The callers are still filling the store: nothing was written from it yet.
Filling == lastOp.op \notin {"write", "parse"}

Given(f, k, vals) == [n \in DOMAIN f \cup {k} |-> IF n = k THEN vals ELSE f[n]]

SetOp ==
  /\ Filling
  /\ SumLen(expect, DOMAIN expect) < MaxValues
  /\ \E name \in NameCases, value \in StoreValues :
       /\ headers' = Set(headers, name.text, value)
       /\ expect' = Given(expect, name.lower,
                          IF name.lower \in DOMAIN expect THEN Append(expect[name.lower], value)
                          ELSE <<value>>)
       /\ lastOp' = [op |-> "set", name |-> name.text, value |-> value]
  /\ UNCHANGED <<wire, requestVars, routerVars, writerVars, serverVars>>

ReplaceOp ==
  /\ Filling
  /\ \E name \in NameCases, value \in StoreValues :
       /\ name.lower \notin DOMAIN expect => SumLen(expect, DOMAIN expect) < MaxValues
       /\ headers' = Replace(headers, name.text, value)
       /\ expect' = Given(expect, name.lower, <<value>>)
       /\ lastOp' = [op |-> "replace", name |-> name.text, value |-> value]
  /\ UNCHANGED <<wire, requestVars, routerVars, writerVars, serverVars>>

GetOp ==
  /\ Filling
  /\ \E name \in NameCases :
       lastOp' = [op |-> "get", name |-> name, got |-> Get(headers, name.text)]
  /\ UNCHANGED <<headers, expect, wire, requestVars, routerVars, writerVars, serverVars>>

\* Writer.WriteHeaders: one line per entry, in the order ForEach visits the map,
\* then the empty line.
Orders(keys) == {o \in [1..Cardinality(keys) -> keys] : \A k \in keys : \E i \in DOMAIN o : o[i] = k}

Serialize(h, order) ==
  Concat([i \in 1..Len(order) |-> order[i] \o <<":", " ">> \o h[order[i]] \o sepCRLF]) \o sepCRLF

WriteOp ==
  /\ Filling
  /\ \E order \in Orders(DOMAIN headers) :
       /\ wire' = Serialize(headers, order)
       /\ lastOp' = [op |-> "write", order |-> order]
  /\ UNCHANGED <<headers, expect, requestVars, routerVars, writerVars, serverVars>>

\* What was written is parsed into an empty store.
ParseWritten ==
  /\ lastOp.op = "write"
  /\ lastOp' = [op |-> "parse", res |-> HeadersParse(NewHeaders, wire)]
  /\ UNCHANGED <<headers, expect, wire, requestVars, routerVars, writerVars, serverVars>>

\* No request is being read.
RequestIdle ==
  /\ input = BaseInput
  /\ stream = <<>>
  /\ pos = 0
  /\ buf = <<>>
  /\ request = newRequest
  /\ pc = "idle"
  /\ result = [req |-> Nil, err |-> "nil"]

InitStore == RequestIdle /\ HeadersIdle /\ RouterIdle /\ WriterIdle /\ ServerIdle

NextStore == SetOp \/ ReplaceOp \/ GetOp \/ WriteOp \/ ParseWritten

SpecStore == InitStore /\ [][NextStore]_vars

\* What get returns for a name, by the values given to it.
Joined(vals) == Join(vals, <<",">>)

ExpectedGet(lower) ==
  IF lower \in DOMAIN expect THEN [v |-> Joined(expect[lower]), ok |-> TRUE]
  ELSE [v |-> <<>>, ok |-> FALSE]

\* C11: the store holds, under each lowercased name, the values set since the
\* name was last replaced, joined by single commas in call order; get finds a
\* stored name in every letter case and returns ("", false) for another.
C11_StoreSemantics ==
  /\ DOMAIN headers = DOMAIN expect
  /\ \A k \in DOMAIN expect : headers[k] = Joined(expect[k])
  /\ \A name \in NameCases : Get(headers, name.text) = ExpectedGet(name.lower)
  /\ lastOp.op = "get" => lastOp.got = ExpectedGet(lastOp.name.lower)

\* Three sets of one name in three letter cases, then a get in upper case.
C11_Witness ==
  /\ lastOp.op = "get"
  /\ lastOp.name.text = <<"A", "B">>
  /\ lastOp.got = [v |-> <<"1", ",", "a", ":", "b", ",", "1">>, ok |-> TRUE]

\* C13: a store written as WriteHeaders writes it, in whatever order, and
\* parsed into an empty store, gives the store again: Parse is done, has
\* consumed all the bytes and returns no error.
C13_RoundTrip ==
  lastOp.op = "parse" =>
    /\ lastOp.res.err = "nil"
    /\ lastOp.res.done
    /\ lastOp.res.n = Len(wire)
    /\ lastOp.res.h = headers

\* A store of two names, one of them set twice, has made the round trip.
C13_Witness ==
  /\ lastOp.op = "parse"
  /\ DOMAIN headers = {<<"a", "b">>, <<"c", "-", "d">>}
  /\ headers[<<"a", "b">>] = <<"1", ",", "a", ":", "b">>
  /\ lastOp.res.h = headers

\* --------------------------------------------------------- header parsing

\* A field line on the wire, and what is wrong with it: nothing ("ok"), no
\* colon ("noColon"), a space at an end of the name ("space"), or a name that is
\* no token of RFC 7230 ("notToken").
Line(text, kind) == [text |-> text, kind |-> kind]

LineCases ==
  {Line(<<"A", "-", "b", ":", " ", "v">>, "ok"), Line(<<"x", "!", ":", " ", "y", ":", "z">>, "ok"),
   Line(<<"a", "b", "c">>, "noColon"), Line(<<" ", "a", " ", "b">>, "noColon"),
   Line(<<" ", "a", ":", " ", "v">>, "space"), Line(<<"a", " ", ":", " ", "v">>, "space"),
   Line(<<"a", " ", "b", ":", " ", "v">>, "notToken"), Line(<<"a", "(", "b", ":", " ", "v">>, "notToken"), Line(<<"a", "@", "b", ":", " ", "v">>, "notToken"),
   Line(<<"a", "/", "b", ":", " ", "v">>, "notToken"), Line(<<":", " ", "v">>, "notToken")}

\* The most field lines handed to Headers.Parse at once.
MaxLines == 2

\* The field lines, each with its CRLF, and the empty line if the block is ended.
WireOf(lines, ended) ==
  WireLines([i \in 1..Len(lines) |-> lines[i].text]) \o (IF ended THEN sepCRLF ELSE <<>>)

ParseInputs == {[lines |-> ls, ended |-> e] : ls \in SeqsUpTo(LineCases, MaxLines) \ {<<>>}, e \in BOOLEAN}

\* Headers.Parse on the bytes of the input; res is what it returns, the store
\* holding the lines it has set.
ParsedWire(res) ==
  /\ lastOp' = [op |-> "parse", lines |-> lastOp.lines, res |-> res]
  /\ headers' = res.h
  /\ UNCHANGED <<expect, wire, requestVars, routerVars, writerVars, serverVars>>

ParseWire ==
  /\ lastOp.op = "input"
  /\ ParsedWire(HeadersParse(headers, wire))

InitWire ==
  /\ WriterIdle
  /\ ServerIdle
  /\ RequestIdle
  /\ RouterIdle
  /\ headers = NewHeaders
  /\ expect = <<>>
  /\ \E in \in ParseInputs :
       /\ lastOp = [op |-> "input", lines |-> in.lines]
       /\ wire = WireOf(in.lines, in.ended)

NextWire == ParseWire

SpecWire == InitWire /\ [][NextWire]_vars

\* The error of a kind of line.
ErrorOf(kind) ==
  CASE kind = "noColon" -> "ErrMalformedHeader"
    [] kind = "space" -> "ErrMalformedFieldLine"
    [] kind = "notToken" -> "ErrMalformedHeaderName"

FirstBad(lines) == CHOOSE i \in 1..Len(lines) : lines[i].kind # "ok" /\ \A j \in 1..(i - 1) : lines[j].kind = "ok"

ParseAnswers(lines, res) ==
  IF \A i \in 1..Len(lines) : lines[i].kind = "ok" THEN res.err = "nil"
  ELSE /\ res.err = ErrorOf(lines[FirstBad(lines)].kind)
       /\ res.n = 0
       /\ ~res.done

\* C12: Headers.Parse answers a line without colon with MalformedHeader, a
\* space at an end of the name with MalformedFieldLine, a name that is no token
\* with MalformedHeaderName, and every error with consumed = 0 and done = false.
C12_ParseErrors == lastOp.op = "parse" => ParseAnswers(lastOp.lines, lastOp.res)

\* The names that are no tokens of RFC 7230 and that isToken refuses.
Refusable == {<<"a", " ", "b", ":", " ", "v">>}

\* C12 for the inputs whose names are tokens or are refused by isToken.
C12_ParseErrorsRefusable ==
  (\A i \in 1..Len(lastOp.lines) : lastOp.lines[i].kind = "notToken" => lastOp.lines[i].text \in Refusable)
    => C12_ParseErrors

\* ------------------------------------------------------------------ router

methodGET == 0
methodPOST == 1
methodPUT == 2
methodDELETE == 3
methodPATCH == 4
methodCount == 5

\* A handler is nil, one of the two handlers of the router, or a handler of the
\* callers.
NilHandler == [h |-> "nil"]
notFoundHandler == [h |-> "notFoundHandler"]
methodNotAllowedHandler == [h |-> "methodNotAllowedHandler"]

newRouterNode(token, isParam) ==
  [token |-> token,
   isParam |-> isParam,
   children |-> <<>>,
   handlers |-> [m \in 0..(methodCount - 1) |-> NilHandler]]

\* The nodes ns with child appended, as a child of node.
addChild(ns, node, child) ==
  [Append(ns, child) EXCEPT ![node].children = Append(@, Len(ns) + 1)]

setMethodHandler_KeepFirst(ns, node, m, handler) ==
  IF m >= methodCount THEN [nodes |-> ns, err |-> "ErrInvalidHttpMethod"]
  ELSE IF ns[node].handlers[m] # NilHandler THEN [nodes |-> ns, err |-> "nil"]
  ELSE [nodes |-> [ns EXCEPT ![node].handlers[m] = handler], err |-> "nil"]

setMethodHandler(ns, node, m, handler) ==
  IF m >= methodCount THEN [nodes |-> ns, err |-> "ErrInvalidHttpMethod"]
  ELSE [nodes |-> [ns EXCEPT ![node].handlers[m] = handler], err |-> "nil"]

\* The first child of node, from its i-th on, that is static with the token; 0 is nil.
RECURSIVE getStaticChildFrom(_, _, _, _)
getStaticChildFrom(ns, node, token, i) ==
  IF i > Len(ns[node].children) THEN 0
  ELSE IF ~ns[ns[node].children[i]].isParam /\ ns[ns[node].children[i]].token = token
       THEN ns[node].children[i]
  ELSE getStaticChildFrom(ns, node, token, i + 1)

getStaticChild(ns, node, token) == getStaticChildFrom(ns, node, token, 1)

RECURSIVE getParamChildFrom(_, _, _)
getParamChildFrom(ns, node, i) ==
  IF i > Len(ns[node].children) THEN 0
  ELSE IF ns[ns[node].children[i]].isParam THEN ns[node].children[i]
  ELSE getParamChildFrom(ns, node, i + 1)

getParamChild(ns, node) == getParamChildFrom(ns, node, 1)

matchChildParam(c) ==
  IF c # 0 THEN [child |-> c, usedParam |-> TRUE] ELSE [child |-> 0, usedParam |-> FALSE]

matchChildStatic(ns, node, c) ==
  IF c # 0 THEN [child |-> c, usedParam |-> FALSE] ELSE matchChildParam(getParamChild(ns, node))

matchChild_ParamFirst(ns, node, token) ==
  IF getParamChild(ns, node) # 0 THEN [child |-> getParamChild(ns, node), usedParam |-> TRUE]
  ELSE [child |-> getStaticChild(ns, node, token), usedParam |-> FALSE]

matchChild(ns, node, token) == matchChildStatic(ns, node, getStaticChild(ns, node, token))

getHandler(ns, node, m) ==
  IF m >= methodCount THEN [handler |-> notFoundHandler, err |-> "ErrInvalidHttpMethod"]
  ELSE [handler |-> ns[node].handlers[m], err |-> "nil"]

\* NewRouter: the root node, and the Router that has it.
rootNode == 1
NewRouterNodes == <<newRouterNode(<<"/">>, FALSE)>>
NewRouter == [routes |-> rootNode, prefix |-> <<>>]

withPrefix(r, path) ==
  IF r.prefix = <<>> THEN [path |-> path, err |-> "nil"]
  ELSE IF path = <<"/">> \/ path = <<>> THEN [path |-> r.prefix, err |-> "nil"]
  ELSE IF path[1] # "/" THEN [path |-> path, err |-> "ErrMalformedRequestTarget"]
  ELSE [path |-> r.prefix \o path, err |-> "nil"]

TrimPrefix(str, prefix) ==
  IF HasPrefix(str, prefix) THEN SubSeq(str, Len(prefix) + 1, Len(str)) ELSE str

TrimSuffix(str, suffix) ==
  IF HasSuffix(str, suffix) THEN SubSeq(str, 1, Len(str) - Len(suffix)) ELSE str

\* No trailing slash is dropped.
getTokens_KeepsTrailing(path) ==
  IF Len(path) = 0 THEN [tokens |-> <<>>, err |-> "ErrRequestTargetEmpty"]
  ELSE IF path[1] # "/" THEN [tokens |-> <<>>, err |-> "ErrMalformedRequestTarget"]
  ELSE IF path = <<"/">> THEN [tokens |-> <<>>, err |-> "nil"]
  ELSE [tokens |-> Split(TrimPrefix(path, <<"/">>), <<"/">>), err |-> "nil"]

getTokens(path) ==
  IF Len(path) = 0 THEN [tokens |-> <<>>, err |-> "ErrRequestTargetEmpty"]
  ELSE IF path[1] # "/" THEN [tokens |-> <<>>, err |-> "ErrMalformedRequestTarget"]
  ELSE IF path = <<"/">> THEN [tokens |-> <<>>, err |-> "nil"]
  ELSE [tokens |-> Split(TrimSuffix(TrimPrefix(path, <<"/">>), <<"/">>), <<"/">>), err |-> "nil"]

\* A method token the router does not know is taken for GET.
getMethod_DefaultGET(str) ==
  CASE str = <<"P", "O", "S", "T">> -> methodPOST
    [] str = <<"P", "U", "T">> -> methodPUT
    [] str = <<"D", "E", "L", "E", "T", "E">> -> methodDELETE
    [] str = <<"P", "A", "T", "C", "H">> -> methodPATCH
    [] OTHER -> methodGET

getMethod(str) ==
  CASE str = <<"G", "E", "T">> -> methodGET
    [] str = <<"P", "O", "S", "T">> -> methodPOST
    [] str = <<"P", "U", "T">> -> methodPUT
    [] str = <<"D", "E", "L", "E", "T", "E">> -> methodDELETE
    [] str = <<"P", "A", "T", "C", "H">> -> methodPATCH
    [] OTHER -> methodCount

\* Router.addRoute: the walk from runner over the tokens from the i-th on; node
\* is the child found for the i-th token, 0 if there is none.
RECURSIVE addRouteFrom(_, _, _, _, _, _)
addRouteParam_AnyName(ns, runner, tokens, i, m, handler, node) ==
  IF node = 0
  THEN addRouteFrom(addChild(ns, runner, newRouterNode(SubSeq(tokens[i], 2, Len(tokens[i])), TRUE)),
                    Len(ns) + 1, tokens, i + 1, m, handler)
  ELSE addRouteFrom(ns, node, tokens, i + 1, m, handler)

\* A second capture name is refused after the node has been given it.
addRouteParam_RenamesFirst(ns, runner, tokens, i, m, handler, node) ==
  IF node = 0
  THEN addRouteFrom(addChild(ns, runner, newRouterNode(SubSeq(tokens[i], 2, Len(tokens[i])), TRUE)),
                    Len(ns) + 1, tokens, i + 1, m, handler)
  ELSE IF ns[node].token # SubSeq(tokens[i], 2, Len(tokens[i]))
       THEN [nodes |-> [ns EXCEPT ![node].token = SubSeq(tokens[i], 2, Len(tokens[i]))],
             err |-> "ErrAmbiguousPathParams"]
  ELSE addRouteFrom(ns, node, tokens, i + 1, m, handler)

addRouteParam(ns, runner, tokens, i, m, handler, node) ==
  IF node = 0
  THEN addRouteFrom(addChild(ns, runner, newRouterNode(SubSeq(tokens[i], 2, Len(tokens[i])), TRUE)),
                    Len(ns) + 1, tokens, i + 1, m, handler)
  ELSE IF ns[node].token # SubSeq(tokens[i], 2, Len(tokens[i]))
       THEN [nodes |-> ns, err |-> "ErrAmbiguousPathParams"]
  ELSE addRouteFrom(ns, node, tokens, i + 1, m, handler)

\* Every static token gets a node of its own.
addRouteStatic_AlwaysNew(ns, runner, tokens, i, m, handler, node) ==
  addRouteFrom(addChild(ns, runner, newRouterNode(tokens[i], FALSE)),
               Len(ns) + 1, tokens, i + 1, m, handler)

addRouteStatic(ns, runner, tokens, i, m, handler, node) ==
  IF node = 0
  THEN addRouteFrom(addChild(ns, runner, newRouterNode(tokens[i], FALSE)),
                    Len(ns) + 1, tokens, i + 1, m, handler)
  ELSE addRouteFrom(ns, node, tokens, i + 1, m, handler)

isParamToken(token) == Len(token) > 0 /\ token[1] = ":"

addRouteFrom(ns, runner, tokens, i, m, handler) ==
  IF i > Len(tokens) THEN setMethodHandler(ns, runner, m, handler)
  ELSE IF isParamToken(tokens[i])
       THEN addRouteParam(ns, runner, tokens, i, m, handler, getParamChild(ns, runner))
  ELSE addRouteStatic(ns, runner, tokens, i, m, handler, getStaticChild(ns, runner, tokens[i]))

addRoute(ns, r, tokens, m, handler) == addRouteFrom(ns, r.routes, tokens, 1, m, handler)

\* Router.GET, POST, PUT, DELETE, PATCH: m is the method of the function called.
routeTokens(ns, r, t, m, handler) ==
  IF t.err # "nil" THEN [nodes |-> ns, err |-> t.err]
  ELSE addRoute(ns, r, t.tokens, m, handler)

routeFullPath(ns, r, fullPath, m, handler) ==
  IF fullPath.err # "nil" THEN [nodes |-> ns, err |-> fullPath.err]
  ELSE routeTokens(ns, r, getTokens(fullPath.path), m, handler)

route(ns, r, path, m, handler) == routeFullPath(ns, r, withPrefix(r, path), m, handler)

GET(ns, r, path, handler) == route(ns, r, path, methodGET, handler)

POST(ns, r, path, handler) == route(ns, r, path, methodPOST, handler)

PUT(ns, r, path, handler) == route(ns, r, path, methodPUT, handler)

DELETE(ns, r, path, handler) == route(ns, r, path, methodDELETE, handler)

PATCH(ns, r, path, handler) == route(ns, r, path, methodPATCH, handler)

\* Router.Group
newPrefix(prefix) ==
  IF prefix = <<"/">> \/ prefix = <<>> THEN <<>>
  ELSE IF ~HasPrefix(prefix, <<"/">>) THEN <<"/">> \o TrimSuffix(prefix, <<"/">>)
  ELSE TrimSuffix(prefix, <<"/">>)

Group_DropsParent(r, prefix) == [routes |-> r.routes, prefix |-> newPrefix(prefix)]

Group(r, prefix) == [routes |-> r.routes, prefix |-> r.prefix \o newPrefix(prefix)]

\* Router.GetHandler: the walk from runner over the tokens from the i-th on,
\* params being req.PathParams; it ends at a node, or at 0 where no child matches.
RECURSIVE walkFrom(_, _, _, _, _)
walkChild_RecordsAll(ns, tokens, i, params, c) ==
  IF c.child = 0 THEN [runner |-> 0, params |-> params]
  ELSE walkFrom(ns, c.child, tokens, i + 1, putParam(params, ns[c.child].token, tokens[i]))

walkChild(ns, tokens, i, params, c) ==
  IF c.child = 0 THEN [runner |-> 0, params |-> params]
  ELSE walkFrom(ns, c.child, tokens, i + 1,
                IF c.usedParam THEN putParam(params, ns[c.child].token, tokens[i]) ELSE params)

walkFrom(ns, runner, tokens, i, params) ==
  IF i > Len(tokens) THEN [runner |-> runner, params |-> params]
  ELSE walkChild(ns, tokens, i, params, matchChild(ns, runner, tokens[i]))

GetHandlerFound_NotFound(ns, runner, got) ==
  IF got.err # "nil" THEN notFoundHandler
  ELSE IF got.handler = NilHandler THEN notFoundHandler
  ELSE got.handler

\* The end of GetHandler, at the node the walk ended at.
GetHandlerFound(ns, runner, got) ==
  IF got.err # "nil" THEN notFoundHandler
  ELSE IF got.handler = NilHandler
       THEN (IF \E m \in 0..(methodCount - 1) : ns[runner].handlers[m] # NilHandler
             THEN methodNotAllowedHandler
             ELSE notFoundHandler)
  ELSE got.handler

GetHandlerWalked(ns, m, w) ==
  IF w.runner = 0 THEN [handler |-> notFoundHandler, params |-> w.params, runner |-> 0]
  ELSE [handler |-> GetHandlerFound(ns, w.runner, getHandler(ns, w.runner, m)),
        params |-> w.params,
        runner |-> w.runner]

GetHandlerTokens(ns, r, req, m, t) ==
  IF t.err # "nil" THEN [handler |-> notFoundHandler, params |-> req.PathParams, runner |-> 0]
  ELSE GetHandlerWalked(ns, m, walkFrom(ns, r.routes, t.tokens, 1, req.PathParams))

GetHandlerMethod(ns, r, req, m) ==
  IF m >= methodCount THEN [handler |-> notFoundHandler, params |-> req.PathParams, runner |-> 0]
  ELSE GetHandlerTokens(ns, r, req, m, getTokens(req.RequestLine.RequestTarget))

GetHandler(ns, r, req) == GetHandlerMethod(ns, r, req, getMethod(req.RequestLine.Method))

\* ---------------------------------------------------------- router in use

\* A Router value as the callers hold it: the Router, the Router it was made a
\* group of (0 for the root router), its middleware, what the prefix it was
\* given means, and the middleware it was given, in the order of the calls.
RouterValue(r, parent, given) ==
  [router |-> r, parent |-> parent, middleware |-> <<>>, given |-> given, used |-> <<>>]

\* What a prefix means: the prefix in normal form and its segments.
Meaning(norm, segs) == [norm |-> norm, segs |-> segs]

\* The handler a registration stores: the handler of the caller, and the Router
\* value it was registered through.
HandlerOf(h, g) == [h |-> h, via |-> g]

\* A segment of a route: static, or a parameter with its capture name.
Static(name) == [param |-> FALSE, name |-> name]
Param(name) == [param |-> TRUE, name |-> name]

\* A path as a caller writes it, and the segments it means.
Path(text, segs) == [text |-> text, segs |-> segs]

segU == <<"u">>
segMe == <<"m", "e">>
nameId == <<"i", "d">>
nameX == <<"x">>
nameY == <<"y">>

RegPaths ==
  {Path(<<"/">>, <<>>),
   Path(<<"/", "u", "/", ":", "i", "d">>, <<Static(segU), Param(nameId)>>),
   Path(<<"/", "u", "/", "m", "e">>, <<Static(segU), Static(segMe)>>),
   Path(<<"/", "u", "/", ":", "x">>, <<Static(segU), Param(nameX)>>),
   Path(<<"/", "u", "/", ":", "i", "d", "/", ":", "x">>, <<Static(segU), Param(nameId), Param(nameX)>>),
   Path(<<"/", "u", "/", ":", "i", "d", "/", "m", "e">>, <<Static(segU), Param(nameId), Static(segMe)>>),
   Path(<<"/", "u", "/", ":", "i", "d", "/", ":", "y">>, <<Static(segU), Param(nameId), Param(nameY)>>),
   Path(<<"/", "u", "/", ":", "i", "d", "/", ":", "i", "d">>, <<Static(segU), Param(nameId), Param(nameId)>>)}

RegMethods == {<<"G", "E", "T">>, <<"P", "O", "S", "T">>}

Handlers == {"h1", "h2"}

\* The most routes registered.
MaxRoutes == 2

\* The registrations that succeeded: per method and route, the handler of the
\* last of them.
RouteKey(method, path) == [method |-> method, segs |-> path.segs]

Registered(key, h) == [k \in DOMAIN regs \cup {key} |-> IF k = key THEN h ELSE regs[k]]

\* A call of the function of a method on the Router value g; res is what it
\* returns, with the nodes as it leaves them.
RegisterDone(g, path, method, h, res) ==
  /\ nodes' = res.nodes
  /\ lastReg' = [op |-> "register", g |-> g, path |-> path, err |-> res.err]
  /\ regs' = IF res.err = "nil" THEN Registered(RouteKey(method, path), HandlerOf(h, g)) ELSE regs
  /\ UNCHANGED <<groups, lookup, run, requestVars, headerVars, writerVars, serverVars>>

Register(g, path, method, h) ==
  RegisterDone(g, path, method, h,
               IF method = <<"G", "E", "T">> THEN GET(nodes, groups[g].router, path.text, HandlerOf(h, g))
               ELSE POST(nodes, groups[g].router, path.text, HandlerOf(h, g)))

\* The routes are registered before the requests are looked up.
Registering == groups # <<>> /\ lookup = NoOp

RegisterOp ==
  /\ Registering
  /\ \E path \in RegPaths, method \in RegMethods, h \in Handlers :
       /\ RouteKey(method, path) \notin DOMAIN regs => Cardinality(DOMAIN regs) < MaxRoutes
       /\ Register(1, path, method, h)

\* A request target, and the segments it means (none if it is no path).
Targets ==
  {Path(<<"/">>, <<>>), Path(<<"/", "u">>, <<segU>>), Path(<<"/", "u", "/", "7">>, <<segU, <<"7">>>>),
   Path(<<"/", "u", "/", "m", "e">>, <<segU, segMe>>), Path(<<"/", "u", "/", "7", "/", "9">>, <<segU, <<"7">>, <<"9">>>>),
   Path(<<"/", "u", "/", "7", "/", "m", "e">>, <<segU, <<"7">>, segMe>>), Path(<<"/", "u", "/", "m", "e", "/", "9">>, <<segU, segMe, <<"9">>>>)}

LookupMethods == RegMethods

\* The request the tests make: method, target, no path parameters yet.
mkReq(method, target) ==
  [newRequest EXCEPT !.RequestLine.Method = method, !.RequestLine.RequestTarget = target]

\* GetHandler on the Router value g.
Lookup(g, method, target) ==
  /\ lookup' = [op |-> "lookup", g |-> g, method |-> method, target |-> target,
                res |-> GetHandler(nodes, groups[g].router, mkReq(method, target.text))]
  /\ UNCHANGED <<nodes, groups, regs, lastReg, run, requestVars, headerVars, writerVars, serverVars>>

LookupOp ==
  /\ Registering
  /\ \E method \in LookupMethods, target \in Targets : Lookup(1, method, target)

InitRouter ==
  /\ WriterIdle
  /\ ServerIdle
  /\ RequestIdle
  /\ HeadersIdle
  /\ nodes = NewRouterNodes
  /\ groups = <<RouterValue(NewRouter, 0, Meaning(<<>>, <<>>))>>
  /\ regs = <<>>
  /\ lastReg = NoOp
  /\ lookup = NoOp
  /\ run = NoOp

NextRouter == RegisterOp \/ LookupOp

SpecRouter == InitRouter /\ [][NextRouter]_vars

\* --------------------------------------------------------------- groups

\* A prefix as a caller writes it, and what it means.
Prefix(text, norm, segs) == [text |-> text, means |-> Meaning(norm, segs)]

segA == <<"a">>
segP == <<"p">>

\* The ways a caller writes the prefix a, and the ways it writes no prefix.
PrefixA == {Prefix(<<"/", "a">>, <<"/", "a">>, <<Static(segA)>>), Prefix(<<"a", "/">>, <<"/", "a">>, <<Static(segA)>>)}

PrefixNone == {Prefix(<<"/">>, <<>>, <<>>), Prefix(<<>>, <<>>, <<>>)}

\* The groups the callers make, in the order they make them: a group of the
\* root router, a group of that group, and a group of the root router without
\* a prefix.
Plan(parent, prefixes) == [parent |-> parent, prefixes |-> prefixes]

GroupPlan == <<Plan(1, PrefixA), Plan(2, PrefixA), Plan(1, PrefixNone)>>

\* Router.Group on the Router value g.
MakeGroup(g, prefix) ==
  /\ groups' = Append(groups, RouterValue(Group(groups[g].router, prefix.text), g, prefix.means))
  /\ UNCHANGED <<nodes, regs, lastReg, lookup, run, requestVars, headerVars, writerVars, serverVars>>

GroupOp ==
  /\ Registering
  /\ Len(groups) <= Len(GroupPlan)
  /\ \E prefix \in GroupPlan[Len(groups)].prefixes :
       MakeGroup(GroupPlan[Len(groups)].parent, prefix)

\* The segments of the prefixes of a Router value and of those it is a group of.
RECURSIVE GroupSegs(_)
GroupSegs(g) == IF g = 0 THEN <<>> ELSE GroupSegs(groups[g].parent) \o groups[g].given.segs

GroupPaths ==
  {Path(<<"/">>, <<>>), Path(<<>>, <<>>), Path(<<"/", "p">>, <<Static(segP)>>),
   Path(<<"/", ":", "i", "d">>, <<Param(nameId)>>), Path(<<"p">>, <<Static(segP)>>)}

GroupMethods == {<<"G", "E", "T">>}

GroupHandlers == {"h1"}

GroupRegisterOp ==
  /\ Registering
  /\ \E g \in 1..Len(groups), path \in GroupPaths, method \in GroupMethods, h \in GroupHandlers :
       /\ RouteKey(method, Path(path.text, GroupSegs(g) \o path.segs)) \notin DOMAIN regs
            => Cardinality(DOMAIN regs) < MaxRoutes
       /\ Register(g, Path(path.text, GroupSegs(g) \o path.segs), method, h)

GroupTargets ==
  {Path(<<"/">>, <<>>), Path(<<"/", "a">>, <<segA>>), Path(<<"/", "a", "/">>, <<segA>>), Path(<<"/", "p">>, <<segP>>),
   Path(<<"/", "a", "/", "p">>, <<segA, segP>>), Path(<<"/", "a", "/", "a">>, <<segA, segA>>),
   Path(<<"/", "a", "/", "a", "/", "p">>, <<segA, segA, segP>>), Path(<<"/", "a", "/", "7">>, <<segA, <<"7">>>>), Path(<<"/", "a", "p">>, <<<<"a", "p">>>>)}

GroupLookupOp ==
  /\ Registering
  /\ \E g \in 1..Len(groups), method \in GroupMethods, target \in GroupTargets :
       Lookup(g, method, target)

NextGroups == GroupOp \/ GroupRegisterOp \/ GroupLookupOp

SpecGroups == InitRouter /\ [][NextGroups]_vars

\* ------------------------------------------------------------ middleware

\* The middleware of the tests: one that notes its tag and calls next, one that
\* writes a body and does not call next.
mwTag(tag) == [tag |-> tag, short |-> FALSE]

mwShortCircuit == [tag |-> 0, short |-> TRUE]

\* Router.Use
Use(gs, g, ms) == [gs EXCEPT ![g].middleware = gs[g].middleware \o ms]

\* The middleware visible on the group chain of a Router value, root first.
RECURSIVE ChainOf_GroupFirst(_, _)
ChainOf_GroupFirst(gs, g) ==
  IF g = 0 THEN <<>> ELSE gs[g].middleware \o ChainOf_GroupFirst(gs, gs[g].parent)

RECURSIVE ChainOf(_, _)
ChainOf(gs, g) == IF g = 0 THEN <<>> ELSE ChainOf(gs, gs[g].parent) \o gs[g].middleware

\* The effective handler of a dispatch, as the sequence of what it calls when
\* every middleware calls next.
Effective(gs, handler) ==
  IF handler \in {notFoundHandler, methodNotAllowedHandler} THEN <<handler>>
  ELSE ChainOf(gs, handler.via) \o <<handler>>

\* The router with the groups of main: a group of the root router and a group
\* of that group.
PlannedGroups ==
  <<RouterValue(NewRouter, 0, Meaning(<<>>, <<>>)),
    RouterValue(Group(NewRouter, <<"/", "a">>), 1, Meaning(<<"/", "a">>, <<Static(segA)>>)),
    RouterValue(Group(Group(NewRouter, <<"/", "a">>), <<"/", "a">>), 2, Meaning(<<"/", "a">>, <<Static(segA)>>))>>

\* The most middleware given to the Router values together.
MaxUses == 3

RECURSIVE UsesUpTo(_)
UsesUpTo(g) == IF g = 0 THEN 0 ELSE UsesUpTo(g - 1) + Len(groups[g].middleware)

\* The arguments of a call of Use after k middleware were given: one tagged
\* middleware, two, or one that does not call next.
UseArgs(k) == {<<mwTag(k + 1)>>, <<mwTag(k + 1), mwTag(k + 2)>>, <<mwShortCircuit>>}

UseOn(g, ms) ==
  /\ groups' = [Use(groups, g, ms) EXCEPT ![g].used = groups[g].used \o ms]
  /\ UNCHANGED <<nodes, regs, lastReg, lookup, run, requestVars, headerVars, writerVars, serverVars>>

UseOp ==
  /\ Registering
  /\ \E g \in 1..Len(groups), ms \in UseArgs(UsesUpTo(Len(groups))) :
       /\ UsesUpTo(Len(groups)) + Len(ms) <= MaxUses
       /\ UseOn(g, ms)

\* A handler registered at /p through a Router value.
HandleOp ==
  /\ Registering
  /\ \E g \in 1..Len(groups) :
       Register(g, Path(<<"/", "p">>, GroupSegs(g) \o <<Static(segP)>>), <<"G", "E", "T">>, "h1")

DispatchTargets ==
  {Path(<<"/", "p">>, <<segP>>), Path(<<"/", "a", "/", "p">>, <<segA, segP>>), Path(<<"/", "a", "/", "a", "/", "p">>, <<segA, segA, segP>>),
   Path(<<"/", "a">>, <<segA>>)}

\* A request is dispatched: the handler is looked up and the effective handler
\* is about to run.
Dispatched(method, target, res) ==
  /\ lookup' = [op |-> "lookup", g |-> 1, method |-> method, target |-> target, res |-> res]
  /\ run' = [op |-> "dispatch", handler |-> res.handler,
             pending |-> Effective(groups, res.handler), ran |-> <<>>, out |-> <<>>]
  /\ UNCHANGED <<nodes, groups, regs, lastReg, requestVars, headerVars, writerVars, serverVars>>

DispatchOp ==
  /\ Registering
  /\ \E target \in DispatchTargets :
       Dispatched(<<"G", "E", "T">>, target,
                  GetHandler(nodes, groups[1].router, mkReq(<<"G", "E", "T">>, target.text)))

\* Whether a step of the effective handler calls the next one: the handler
\* mwTag returns does, the one mwShortCircuit returns does not.
callsNext_Always(step) == TRUE

callsNext(step) == step # mwShortCircuit

\* What a step of the effective handler writes to the response writer:
\* mwShortCircuit its body, a handler its own response, mwTag nothing.
written(step) ==
  IF step = mwShortCircuit THEN <<"blocked">>
  ELSE IF "h" \in DOMAIN step THEN <<step.h>>
  ELSE <<>>

\* The next of the effective handler runs; a middleware that does not call
\* next ends the run.
RunNextOp ==
  /\ run.op = "dispatch"
  /\ run.pending # <<>>
  /\ run' = [run EXCEPT !.ran = Append(run.ran, Head(run.pending)),
                         !.out = run.out \o written(Head(run.pending)),
                         !.pending = IF callsNext(Head(run.pending)) THEN Tail(run.pending)
                                     ELSE <<>>]
  /\ UNCHANGED <<nodes, groups, regs, lastReg, lookup, requestVars, headerVars, writerVars, serverVars>>

InitMiddleware ==
  /\ WriterIdle
  /\ ServerIdle
  /\ RequestIdle
  /\ HeadersIdle
  /\ nodes = NewRouterNodes
  /\ groups = PlannedGroups
  /\ regs = <<>>
  /\ lastReg = NoOp
  /\ lookup = NoOp
  /\ run = NoOp

NextMiddleware == UseOp \/ HandleOp \/ DispatchOp \/ RunNextOp

SpecMiddleware == InitMiddleware /\ [][NextMiddleware]_vars

\* --------------------------------------------------------- router claims

\* A route serves a target when the two have as many segments and each static
\* segment is the target's.
Matches(segs, tsegs) ==
  /\ Len(segs) = Len(tsegs)
  /\ \A i \in 1..Len(segs) : segs[i].param \/ segs[i].name = tsegs[i]

SamePrefix(a, b, n) == \A j \in 1..n : a[j] = b[j]

\* A parameter of the route stands where a registered route that is the same up
\* to there has the target's segment as a static one.
Shadowed(segs, tsegs) ==
  \E i \in 1..Len(segs) :
    /\ segs[i].param
    /\ \E k \in DOMAIN regs :
         /\ Len(k.segs) >= i
         /\ SamePrefix(k.segs, segs, i - 1)
         /\ ~k.segs[i].param
         /\ k.segs[i].name = tsegs[i]

Serving(method, tsegs) ==
  {k \in DOMAIN regs : k.method = method /\ Matches(k.segs, tsegs) /\ ~Shadowed(k.segs, tsegs)}

Looked == lookup.op = "lookup"

\* C14: a request whose method and target match a registered route that no
\* static route takes precedence over gets the handler most recently
\* registered for that method and route, never the 404 or the 405 handler.
C14_RegisteredHandler ==
  Looked =>
    \A k \in Serving(lookup.method, lookup.target.segs) :
      /\ lookup.res.handler = regs[k]
      /\ lookup.res.handler \notin {notFoundHandler, methodNotAllowedHandler, NilHandler}

C14_Witness ==
  /\ Looked
  /\ lookup.target.text = <<"/", "u", "/", "7">>
  /\ lastReg.op = "register"
  /\ lastReg.err = "nil"
  /\ Cardinality(DOMAIN regs) = 1
  /\ RouteKey(lookup.method, lastReg.path) \in Serving(lookup.method, lookup.target.segs)
  /\ lookup.res.handler = HandlerOf("h2", 1)

\* The segments the requests are made of.
Segments == UNION {{t.segs[i] : i \in 1..Len(t.segs)} : t \in Targets}

\* The capture names of a route.
ParamNames(segs) == {segs[i].name : i \in {j \in 1..Len(segs) : segs[j].param}}

\* Two routes that differ only in segment i, static in the first and a
\* parameter in the second.
DiffersInParam(ssegs, psegs, i) ==
  /\ Len(ssegs) = Len(psegs)
  /\ i \in 1..Len(ssegs)
  /\ ~ssegs[i].param
  /\ psegs[i].param
  /\ \A j \in 1..Len(ssegs) : j # i => ssegs[j] = psegs[j]

\* C15: at every node, a static child whose token is the request segment is
\* the child taken, whether or not the node has a parameter child and whichever
\* was registered first; for two routes that differ in one segment being a
\* parameter, a request matching the static one gets the static route's handler
\* and no path parameter but those of the static route.
C15_StaticBeatsParam ==
  /\ ~Looked =>
       \A n \in 1..Len(nodes), token \in Segments :
         getStaticChild(nodes, n, token) # 0 =>
           matchChild(nodes, n, token) = [child |-> getStaticChild(nodes, n, token), usedParam |-> FALSE]
  /\ Looked =>
       \A ks \in Serving(lookup.method, lookup.target.segs), kp \in DOMAIN regs :
         \A i \in 1..Len(ks.segs) :
           DiffersInParam(ks.segs, kp.segs, i) =>
             /\ lookup.res.handler = regs[ks]
             /\ DOMAIN lookup.res.params = ParamNames(ks.segs)

C15_Witness ==
  /\ Looked
  /\ lookup.target.text = <<"/", "u", "/", "7", "/", "m", "e">>
  /\ lastReg.op = "register"
  /\ lastReg.err = "nil"
  /\ lastReg.path.text = <<"/", "u", "/", ":", "i", "d", "/", "m", "e">>
  /\ RouteKey(lookup.method, lastReg.path) \in Serving(lookup.method, lookup.target.segs)
  /\ \E kp \in DOMAIN regs : DiffersInParam(lastReg.path.segs, kp.segs, 3)
  /\ lookup.res.handler = regs[RouteKey(lookup.method, lastReg.path)]
  /\ DOMAIN lookup.res.params = {nameId}

\* The registered routes of any method that serve a target.
ServingAny(tsegs) ==
  {k \in DOMAIN regs : Matches(k.segs, tsegs) /\ ~Shadowed(k.segs, tsegs)}

HasHandler(node, m) == nodes[node].handlers[m] # NilHandler

HasOtherHandler(node, m) == \E m2 \in 0..(methodCount - 1) : m2 # m /\ HasHandler(node, m2)

\* What C16 says of a lookup of recognized method m that ended at node runner
\* (0 when the walk failed).
MethodDiscrimination(m, runner, handler, tsegs) ==
  /\ runner # 0 =>
       (handler = methodNotAllowedHandler <=> (~HasHandler(runner, m) /\ HasOtherHandler(runner, m)))
  /\ (runner = 0 \/ \A m2 \in 0..(methodCount - 1) : ~HasHandler(runner, m2)) =>
       handler = notFoundHandler
  /\ handler = methodNotAllowedHandler <=>
       (ServingAny(tsegs) # {} /\ Serving(lookup.method, tsegs) = {})
  /\ ServingAny(tsegs) = {} => handler = notFoundHandler

\* C16: for a recognized method, GetHandler returns the 405 handler exactly
\* when the walk ends at a node without a handler for the method and with a
\* handler for another method (a route of another method serves the target and
\* none of this method does), and the 404 handler when the walk fails or the
\* node has no handler at all.
C16_NotFoundOrNotAllowed ==
  (Looked /\ getMethod(lookup.method) < methodCount) =>
    MethodDiscrimination(getMethod(lookup.method), lookup.res.runner, lookup.res.handler,
                         lookup.target.segs)

C16_Witness ==
  /\ Looked
  /\ lookup.method = <<"P", "O", "S", "T">>
  /\ lookup.target.text = <<"/", "u", "/", "7">>
  /\ DOMAIN regs = {[method |-> <<"G", "E", "T">>, segs |-> <<Static(segU), Param(nameId)>>]}
  /\ lookup.res.runner # 0
  /\ lookup.res.handler = methodNotAllowedHandler

\* A parameter of the path stands where a registered route that is the same up
\* to there has a parameter of another capture name.
Conflict(segs) ==
  \E i \in 1..Len(segs) :
    /\ segs[i].param
    /\ \E k \in DOMAIN regs :
         /\ Len(k.segs) >= i
         /\ SamePrefix(k.segs, segs, i - 1)
         /\ k.segs[i].param
         /\ k.segs[i].name # segs[i].name

ExpectedErr(segs) == IF Conflict(segs) THEN "ErrAmbiguousPathParams" ELSE "nil"

ParamChildren(node) ==
  {i \in 1..Len(nodes[node].children) : nodes[nodes[node].children[i]].isParam}

\* Registering is refused exactly for a conflicting capture name, at any depth,
\* in the call made last and in any call that could be made now (a lookup
\* leaves the nodes as they were).
AmbiguityRefused ==
  /\ lastReg.op = "register" => lastReg.err = ExpectedErr(lastReg.path.segs)
  /\ ~Looked =>
       \A path \in RegPaths :
         /\ GET(nodes, groups[1].router, path.text, HandlerOf("h1", 1)).err = ExpectedErr(path.segs)
         /\ POST(nodes, groups[1].router, path.text, HandlerOf("h2", 1)).err = ExpectedErr(path.segs)
  /\ ~Looked => \A node \in 1..Len(nodes) : Cardinality(ParamChildren(node)) <= 1

\* The parameter child of a node stays the same node with the same capture name.
CaptureNameKept ==
  \A node \in 1..Len(nodes) :
    getParamChild(nodes, node) # 0 =>
      /\ getParamChild(nodes', node) = getParamChild(nodes, node)
      /\ nodes'[getParamChild(nodes, node)].token = nodes[getParamChild(nodes, node)].token

\* C17: registering a route with a parameter where the node already has a
\* parameter child of another capture name fails with ErrAmbiguousPathParams at
\* any depth, registering with the same capture name succeeds, and the capture
\* name of a node's parameter child never changes.
C17_AmbiguousParams == []AmbiguityRefused /\ [][CaptureNameKept]_vars

C17_Witness ==
  /\ lastReg.op = "register"
  /\ lastReg.path.text = <<"/", "u", "/", ":", "i", "d", "/", ":", "y">>
  /\ lastReg.err = "ErrAmbiguousPathParams"
  /\ \E k \in DOMAIN regs : k.segs = <<Static(segU), Param(nameId), Param(nameX)>>
  /\ GET(nodes, groups[1].router, <<"/", "u", "/", ":", "i", "d", "/", ":", "x">>, HandlerOf("h1", 1)).err = "nil"

\* The path parameters map the capture name of each parameter of the route to
\* the request segment at its place, and have no other entry.
Captured(segs, tsegs, params) ==
  /\ DOMAIN params = ParamNames(segs)
  /\ \A i \in 1..Len(segs) : segs[i].param => params[segs[i].name] = tsegs[i]

\* The same, a capture name that the route repeats mapped to the segment at
\* the last of its places.
LastAt(segs, name) ==
  CHOOSE i \in 1..Len(segs) :
    /\ segs[i].param /\ segs[i].name = name
    /\ \A j \in (i + 1)..Len(segs) : ~(segs[j].param /\ segs[j].name = name)

CapturedLast(segs, tsegs, params) ==
  /\ DOMAIN params = ParamNames(segs)
  /\ \A name \in ParamNames(segs) : params[name] = tsegs[LastAt(segs, name)]

DistinctNames(segs) ==
  \A i, j \in 1..Len(segs) : (segs[i].param /\ segs[j].param /\ segs[i].name = segs[j].name) => i = j

FoundRegistered == Looked /\ lookup.res.handler \notin {notFoundHandler, methodNotAllowedHandler}

\* C18: when GetHandler returns a registered handler, the path parameters of
\* the request map each capture name of the route to the request segment at
\* its place, and have no entry for a segment matched by a static child.
C18_PathParams ==
  FoundRegistered =>
    \E k \in Serving(lookup.method, lookup.target.segs) :
      /\ lookup.res.handler = regs[k]
      /\ Captured(k.segs, lookup.target.segs, lookup.res.params)

\* C18, for the routes it holds of: those whose capture names are distinct; a
\* capture name the route repeats is mapped to the last of its segments.
C18_PathParamsDistinctNames ==
  FoundRegistered =>
    \E k \in Serving(lookup.method, lookup.target.segs) :
      /\ lookup.res.handler = regs[k]
      /\ DistinctNames(k.segs) => Captured(k.segs, lookup.target.segs, lookup.res.params)
      /\ CapturedLast(k.segs, lookup.target.segs, lookup.res.params)

C18_Witness ==
  /\ Looked
  /\ lookup.target.text = <<"/", "u", "/", "7", "/", "9">>
  /\ lookup.res.handler \in {HandlerOf(h, 1) : h \in Handlers}
  /\ DOMAIN lookup.res.params = {nameId, nameX}
  /\ lookup.res.params[nameId] = <<"7">>
  /\ lookup.res.params[nameX] = <<"9">>

\* The prefix of a Router value: those of the groups it comes from, root
\* first, in normal form, one after the other.
RECURSIVE GroupNorm(_)
GroupNorm(g) == IF g = 0 THEN <<>> ELSE GroupNorm(groups[g].parent) \o groups[g].given.norm

SharedTrie ==
  \A g \in 1..Len(groups) :
    /\ groups[g].router.routes = groups[1].router.routes
    /\ groups[g].router.prefix = GroupNorm(g)

\* Registering the path through the Router value g does what registering the
\* prefix of g followed by the path does through the root router: the same
\* error, the same nodes.
SameAsRoot(g, path) ==
  GET(nodes, groups[g].router, path.text, HandlerOf("h1", g))
    = GET(nodes, groups[1].router, GroupNorm(g) \o path.text, HandlerOf("h1", g))

\* Registering the path through the Router value g is refused and changes
\* nothing.
RefusedByGroup(g, path) ==
  GET(nodes, groups[g].router, path.text, HandlerOf("h1", g))
    = [nodes |-> nodes, err |-> "ErrMalformedRequestTarget"]

\* A Router value without a prefix registers as a new router with the same
\* nodes does.
SameAsPlain(g, path) ==
  GET(nodes, groups[g].router, path.text, HandlerOf("h1", g))
    = GET(nodes, NewRouter, path.text, HandlerOf("h1", g))

\* A lookup gives the same through every Router value, and finds the routes
\* registered through any of them.
ResolvedEverywhere ==
  Looked =>
    /\ \A g \in 1..Len(groups) :
         GetHandler(nodes, groups[g].router, mkReq(lookup.method, lookup.target.text)) = lookup.res
    /\ \A k \in Serving(lookup.method, lookup.target.segs) : lookup.res.handler = regs[k]

Relative(path) == path.text # <<>> /\ path.text[1] # "/"

\* C19: registering a path through a group has exactly the effect of
\* registering the group's prefix followed by the path on the root router;
\* the route is resolved by GetHandler on the root router and on every group;
\* nested groups concatenate their prefixes; a group of prefix "/" or "" does
\* what the plain router does.
C19_GroupsShareTrie ==
  /\ SharedTrie
  /\ ResolvedEverywhere
  /\ ~Looked =>
       \A g \in 1..Len(groups), path \in GroupPaths :
         /\ SameAsRoot(g, path)
         /\ GroupNorm(g) = <<>> => SameAsPlain(g, path)

\* C19, for the paths it holds of: the empty path and the paths that begin
\* with a slash; a group with a prefix refuses any other path. (The
\* registrations are tried on the nodes before any lookup: a lookup leaves
\* them as they were.)
C19_GroupsShareTrieAbsolute ==
  /\ SharedTrie
  /\ ResolvedEverywhere
  /\ ~Looked =>
       \A g \in 1..Len(groups), path \in GroupPaths :
         /\ ~Relative(path) => SameAsRoot(g, path)
         /\ (Relative(path) /\ GroupNorm(g) # <<>>) => RefusedByGroup(g, path)
         /\ GroupNorm(g) = <<>> => SameAsPlain(g, path)

C19_Witness ==
  /\ Len(groups) = 4
  /\ lastReg.op = "register"
  /\ lastReg.g = 3
  /\ lastReg.path.text = <<"/", "p">>
  /\ lastReg.err = "nil"
  /\ Looked
  /\ lookup.g = 4
  /\ lookup.target.text = <<"/", "a", "/", "a", "/", "p">>
  /\ lookup.res.handler = HandlerOf("h1", 3)

\* The middleware given to a Router value and to those it is a group of, the
\* root router's first, each in the order of the calls.
RECURSIVE GivenTo(_)
GivenTo(g) == IF g = 0 THEN <<>> ELSE GivenTo(groups[g].parent) \o groups[g].used

IsPrefix(a, b) == Len(a) <= Len(b) /\ SubSeq(b, 1, Len(a)) = a

DispatchedTo(h) == run.op = "dispatch" /\ run.handler = h

RunInOrder(h) ==
  /\ IsPrefix(run.ran, GivenTo(h.via) \o <<h>>)
  /\ (run.pending = <<>> /\ mwShortCircuit \notin {run.ran[i] : i \in 1..Len(run.ran)})
       => run.ran = GivenTo(h.via) \o <<h>>

\* C20: a dispatch to a handler registered through a group runs the root
\* router's middleware in the order it was added, then the group's middleware
\* in the order it was added, then the handler.
C20_MiddlewareOrder ==
  \A g \in 1..Len(groups) :
    DispatchedTo(HandlerOf("h1", g)) => RunInOrder(HandlerOf("h1", g))

C20_Witness ==
  /\ groups[1].used = <<mwTag(1), mwTag(2)>>
  /\ groups[2].used = <<mwTag(3)>>
  /\ lookup.op = "lookup"
  /\ lookup.target.text = <<"/", "a", "/", "p">>
  /\ DispatchedTo(HandlerOf("h1", 2))
  /\ run.pending = <<>>
  /\ run.ran = <<mwTag(1), mwTag(2), mwTag(3), HandlerOf("h1", 2)>>

\* The steps of the effective handler that ran after the first one that did
\* not call next.
RanAfterShort ==
  {i \in 1..Len(run.ran) : \E j \in 1..(i - 1) : run.ran[j] = mwShortCircuit}

ShortCircuited == run.op = "dispatch" /\ \E i \in 1..Len(run.ran) : run.ran[i] = mwShortCircuit

\* C21: once a middleware of the chain has returned without calling next,
\* no later middleware and not the terminal handler run for that request,
\* and what that middleware wrote is the whole response.
C21_ShortCircuit ==
  ShortCircuited =>
    /\ RanAfterShort = {}
    /\ run.pending = <<>>
    /\ run.handler \notin {run.ran[i] : i \in 1..Len(run.ran)}
    /\ run.out = <<"blocked">>

C21_Witness ==
  /\ groups[1].used = <<mwTag(1)>>
  /\ groups[2].used = <<mwShortCircuit>>
  /\ groups[3].used = <<mwTag(2)>>
  /\ DispatchedTo(HandlerOf("h1", 3))
  /\ run.ran = <<mwTag(1), mwShortCircuit>>
  /\ run.pending = <<>>
  /\ run.out = <<"blocked">>

\* ---------------------------------------------------------- response writer

StatusOK == 200
StatusCreated == 201
StatusPartialContent == 206
StatusBadRequest == 400
StatusNotFound == 404
StatusMethodNotAllowed == 405
StatusRangeNotSatisfiable == 416
StatusInternalServerError == 500
StatusNotImplemented == 501
StatusHttpVersionNotSupported == 505

\* An error value as the chain errors.Is walks: nil is the empty chain.
NoError == <<>>
ErrUnrecognizedStatusCode == <<"ErrUnrecognizedStatusCode">>
ErrFailedToWrite == <<"ErrFailedToWrite">>

\* errors.Is
Is(err, target) == \E i \in 1..Len(err) : err[i] = target

\* What a method of the Writer sets out to do: the byte slices it hands to its
\* write loop, one loop after the other, and the error it returns once they
\* are written.
Emit(stages, err) == [stages |-> stages, err |-> err]

\* The status line of WriteStatusLine's switch; empty in its default case.
statusLine(statusCode) ==
  IF statusCode = StatusOK THEN <<"H", "T", "T", "P", "/", "1", ".", "1", " ", "2", "0", "0", " ", "O", "K", "\r", "\n">>
  ELSE IF statusCode = StatusCreated THEN <<"H", "T", "T", "P", "/", "1", ".", "1", " ", "2", "0", "1", " ", "C", "r", "e", "a", "t", "e", "d", "\r", "\n">>
  ELSE IF statusCode = StatusPartialContent THEN <<"H", "T", "T", "P", "/", "1", ".", "1", " ", "2", "0", "6", " ", "P", "a", "r", "t", "i", "a", "l", " ", "C", "o", "n", "t", "e", "n", "t", "\r", "\n">>
  ELSE IF statusCode = StatusBadRequest THEN <<"H", "T", "T", "P", "/", "1", ".", "1", " ", "4", "0", "0", " ", "B", "a", "d", " ", "R", "e", "q", "u", "e", "s", "t", "\r", "\n">>
  ELSE IF statusCode = StatusNotFound THEN <<"H", "T", "T", "P", "/", "1", ".", "1", " ", "4", "0", "4", " ", "N", "o", "t", " ", "F", "o", "u", "n", "d", "\r", "\n">>
  ELSE IF statusCode = StatusMethodNotAllowed THEN <<"H", "T", "T", "P", "/", "1", ".", "1", " ", "4", "0", "5", " ", "M", "e", "t", "h", "o", "d", " ", "N", "o", "t", " ", "A", "l", "l", "o", "w", "e", "d", "\r", "\n">>
  ELSE IF statusCode = StatusRangeNotSatisfiable THEN <<"H", "T", "T", "P", "/", "1", ".", "1", " ", "4", "1", "6", " ", "R", "a", "n", "g", "e", " ", "N", "o", "t", " ", "S", "a", "t", "i", "s", "f", "i", "a", "b", "l", "e", "\r", "\n">>
  ELSE IF statusCode = StatusInternalServerError THEN <<"H", "T", "T", "P", "/", "1", ".", "1", " ", "5", "0", "0", " ", "I", "n", "t", "e", "r", "n", "a", "l", " ", "S", "e", "r", "v", "e", "r", " ", "E", "r", "r", "o", "r", "\r", "\n">>
  ELSE IF statusCode = StatusNotImplemented THEN <<"H", "T", "T", "P", "/", "1", ".", "1", " ", "5", "0", "1", " ", "N", "o", "t", " ", "I", "m", "p", "l", "e", "m", "e", "n", "t", "e", "d", "\r", "\n">>
  ELSE IF statusCode = StatusHttpVersionNotSupported THEN <<"H", "T", "T", "P", "/", "1", ".", "1", " ", "5", "0", "5", " ", "H", "t", "t", "p", " ", "V", "e", "r", "s", "i", "o", "n", " ", "N", "o", "t", " ", "S", "u", "p", "p", "o", "r", "t", "e", "d", "\r", "\n">>
  ELSE <<>>

WriteStatusLine(statusCode) ==
  IF statusLine(statusCode) = <<>> THEN Emit(<<>>, ErrUnrecognizedStatusCode)
  ELSE Emit(<<statusLine(statusCode)>>, NoError)

\* WriteHeaders: ForEach visits the fields in the order of the map iteration.
WriteHeaders(h, order) == Emit(<<Serialize(h, order)>>, NoError)

WriteBody(p) == Emit(<<p>>, NoError)

\* The x verb of fmt for a non-negative int.
RECURSIVE FormatHex(_)
FormatHex(n) == IF n < 16 THEN Hex(n) ELSE FormatHex(n \div 16) \o Hex(n % 16)

\* A call made once the calls before it returned no error.
andThen_Regardless(a, b) == Emit(a.stages \o b.stages, b.err)

andThen(a, b) == IF a.err # NoError THEN a ELSE Emit(a.stages \o b.stages, b.err)

WriteChunk(p) ==
  andThen(WriteBody(FormatHex(Len(p)) \o sepCRLF), andThen(WriteBody(p), WriteBody(sepCRLF)))

WriteChunkEnd(hasTrailers) ==
  WriteBody(IF hasTrailers THEN <<"0", CR, LF>> ELSE <<"0", CR, LF, CR, LF>>)

WriteResponse(statusCode, header, order, body) ==
  andThen(WriteStatusLine(statusCode), andThen(WriteHeaders(header, order), WriteBody(body)))

\* strconv.Itoa
RECURSIVE FormatDec(_)
FormatDec(n) == IF n < 10 THEN <<Chr(48 + n)>> ELSE FormatDec(n \div 10) \o <<Chr(48 + (n % 10))>>

Itoa(n) == IF n < 0 THEN <<"-">> \o FormatDec(0 - n) ELSE FormatDec(n)

\* GetDefaultHeaders, worked out once for each content length up to MaxLength.
MaxLength == 40

defaultHeaders(contentLen) ==
  Set(Set(Set(NewHeaders, <<"C", "o", "n", "t", "e", "n", "t", "-", "L", "e", "n", "g", "t", "h">>, Itoa(contentLen)), <<"C", "o", "n", "n", "e", "c", "t", "i", "o", "n">>, <<"c", "l", "o", "s", "e">>), <<"C", "o", "n", "t", "e", "n", "t", "-", "T", "y", "p", "e">>, <<"t", "e", "x", "t", "/", "h", "t", "m", "l">>)

DefaultHeaders == [contentLen \in 0..MaxLength |-> defaultHeaders(contentLen)]

GetDefaultHeaders(contentLen) == DefaultHeaders[contentLen]

\* The write loop.  The first stage at or after i that has bytes to write: the
\* loop of an empty slice makes no call of Write.
RECURSIVE nextStage(_, _)
nextStage(stages, i) ==
  IF i > Len(stages) \/ Len(stages[i]) > 0 THEN i ELSE nextStage(stages, i + 1)

\* The call after the loops before stage i have ended.
enterStage(w, i) ==
  IF i > Len(w.stages) THEN [w EXCEPT !.at = i, !.writeN = 0, !.state = "returned", !.err = w.final]
  ELSE [w EXCEPT !.at = i, !.writeN = 0]

startCall(op, args, emit) ==
  enterStage([op |-> op, args |-> args, stages |-> emit.stages, final |-> emit.err,
              at |-> 1, writeN |-> 0, state |-> "writing", err |-> NoError],
             nextStage(emit.stages, 1))

\* The bytes the loop hands to Write: stage[writeN:].
remaining_Whole(w) == w.stages[w.at]

remaining(w) == SubSeq(w.stages[w.at], w.writeN + 1, Len(w.stages[w.at]))

failedToWrite(w, cause) == [w EXCEPT !.state = "returned", !.err = ErrFailedToWrite \o cause]

\* A zero-byte write without an error is retried.
afterWrite_RetryZero(w, n, err) ==
  IF err # NoError THEN failedToWrite(w, err)
  ELSE IF w.writeN + n < Len(w.stages[w.at]) THEN [w EXCEPT !.writeN = w.writeN + n]
  ELSE enterStage(w, nextStage(w.stages, w.at + 1))

\* One iteration of the loop, after Write returned (n, err).
afterWrite(w, n, err) ==
  IF err # NoError THEN failedToWrite(w, err)
  ELSE IF n = 0 THEN failedToWrite(w, NoError)
  ELSE IF w.writeN + n < Len(w.stages[w.at]) THEN [w EXCEPT !.writeN = w.writeN + n]
  ELSE enterStage(w, nextStage(w.stages, w.at + 1))

\* The sink: what it took so far, and of the last call of Write whether it
\* returned zero bytes, and its error.
NewSink == [got |-> <<>>, zero |-> FALSE, err |-> NoError]

\* The errors a sink returns.
SinkErrors == {<<"EPIPE">>}

\* Write(p) returns (n, err): the sink took the first n bytes of p.
sinkWrite(s, p, n, err) ==
  [got |-> s.got \o SubSeq(p, 1, n), zero |-> n = 0, err |-> err]

Writing == wr.op # "none" /\ wr.state = "writing"

WriteStepOf(p) ==
  \E n \in 0..Len(p), err \in {NoError} \cup SinkErrors :
    /\ sink' = sinkWrite(sink, p, n, err)
    /\ wr' = afterWrite(wr, n, err)

\* The loop calls Write once more.
WriteStep ==
  /\ Writing
  /\ WriteStepOf(remaining(wr))
  /\ UNCHANGED <<requestVars, headerVars, routerVars, serverVars>>

\* The calls made on a Writer over a new sink.  Each argument comes with the
\* bytes its caller expects on the wire.
MaxBody == 3

bodyText == <<"h", "e", "l", "l", "o">>

WriterBodies == {SubSeq(bodyText, 1, k) : k \in 0..MaxBody}

Code(statusCode, known, want) == [statusCode |-> statusCode, known |-> known, want |-> want]

WriterCodes ==
  {Code(StatusOK, TRUE, <<"H", "T", "T", "P", "/", "1", ".", "1", " ", "2", "0", "0", " ", "O", "K", "\r", "\n">>),
   Code(StatusNotFound, TRUE, <<"H", "T", "T", "P", "/", "1", ".", "1", " ", "4", "0", "4", " ", "N", "o", "t", " ", "F", "o", "u", "n", "d", "\r", "\n">>),
   Code(299, FALSE, <<>>)}

Chunk(p, want) == [p |-> p, want |-> want]

WriterChunks ==
  {Chunk(<<>>, <<"0", "\r", "\n", "\r", "\n">>), Chunk(<<"h", "i">>, <<"2", "\r", "\n", "h", "i", "\r", "\n">>), Chunk(<<"0", "1", "2", "3", "4", "5", "6", "7", "8", "9", "a", "b", "c", "d", "e", "f", "g">>, <<"1", "1", "\r", "\n", "0", "1", "2", "3", "4", "5", "6", "7", "8", "9", "a", "b", "c", "d", "e", "f", "g", "\r", "\n">>)}

WriterHeaders == {NewHeaders, Set(Set(NewHeaders, <<"A">>, <<"1">>), <<"B">>, <<"2">>)}

\* The header block of a store with its fields in a given order: each field
\* as name, colon, space, value, CRLF; then a bare CRLF.
RECURSIVE HeaderBlock(_, _)
HeaderBlock(h, order) ==
  IF order = <<>> THEN sepCRLF
  ELSE Head(order) \o <<":", SP>> \o h[Head(order)] \o sepCRLF \o HeaderBlock(h, Tail(order))

Called(op, args, emit) ==
  /\ wr.op = "none"
  /\ wr' = startCall(op, args, emit)
  /\ sink' = NewSink
  /\ UNCHANGED <<requestVars, headerVars, routerVars, serverVars>>

WriteStatusLineOp ==
  \E c \in WriterCodes :
    Called("WriteStatusLine", [known |-> c.known, want |-> c.want], WriteStatusLine(c.statusCode))

WriteHeadersOp ==
  \E h \in WriterHeaders : \E order \in Orders(DOMAIN h) :
    Called("WriteHeaders", [known |-> TRUE, want |-> HeaderBlock(h, order)], WriteHeaders(h, order))

WriteBodyOp ==
  \E p \in WriterBodies : Called("WriteBody", [known |-> TRUE, want |-> p], WriteBody(p))

WriteChunkOp ==
  \E c \in WriterChunks : Called("WriteChunk", [known |-> TRUE, want |-> c.want], WriteChunk(c.p))

WriteChunkEndOp ==
  \E hasTrailers \in BOOLEAN :
    Called("WriteChunkEnd",
           [known |-> TRUE, want |-> IF hasTrailers THEN <<"0", "\r", "\n">> ELSE <<"0", "\r", "\n", "\r", "\n">>],
           WriteChunkEnd(hasTrailers))

WriteResponseOp ==
  \E c \in WriterCodes, body \in WriterBodies :
    \E order \in Orders(DOMAIN GetDefaultHeaders(Len(body))) :
      Called("WriteResponse",
             [known |-> c.known, line |-> c.want,
              block |-> HeaderBlock(GetDefaultHeaders(Len(body)), order), body |-> body,
              want |-> c.want \o HeaderBlock(GetDefaultHeaders(Len(body)), order) \o body],
             WriteResponse(c.statusCode, GetDefaultHeaders(Len(body)), order, body))

InitWriter ==
  /\ RequestIdle
  /\ HeadersIdle
  /\ RouterIdle
  /\ ServerIdle
  /\ sink = NewSink
  /\ wr = NoOp

NextWriter ==
  \/ WriteStatusLineOp
  \/ WriteHeadersOp
  \/ WriteBodyOp
  \/ WriteChunkOp
  \/ WriteChunkEndOp
  \/ WriteResponseOp
  \/ WriteStep

SpecWriter == InitWriter /\ [][NextWriter]_vars

\* ------------------------------------------------- claims: response writer

\* The last call of Write failed: it took no byte, or returned an error.
SinkFailed == sink.zero \/ sink.err # NoError

EmittingOps == {"WriteStatusLine", "WriteHeaders", "WriteBody", "WriteChunk", "WriteChunkEnd"}

\* A call of Write that did not fail took at least one more byte.
WriteProgress == (sink' # sink /\ ~SinkFailed') => Len(sink'.got) > Len(sink.got)

\* While the sink has not failed it holds a prefix of the payload, and the
\* method returns exactly when it holds all of it, without an error.
WriteAll ==
  (wr.op \in EmittingOps /\ wr.args.known /\ ~SinkFailed) =>
    /\ IsPrefix(sink.got, wr.args.want)
    /\ wr.state = "returned" <=> sink.got = wr.args.want
    /\ wr.err = NoError

\* C22: over a sink that takes between one byte and all it is handed on each
\* call, without an error, WriteStatusLine, WriteHeaders, WriteBody, WriteChunk
\* and WriteChunkEnd return no error, end (each call takes the loop further),
\* and the sink holds exactly the payload, in order.
C22_WriteAllShortWrites == []WriteAll /\ [][WriteProgress]_vars

C22_Witness ==
  /\ wr.op = "WriteChunk"
  /\ Len(wr.args.want) = 23
  /\ wr.state = "writing"
  /\ wr.at = 2
  /\ wr.writeN = 5
  /\ Len(sink.got) = 9
  /\ ~SinkFailed

\* Once a call of Write has failed the method has returned an error that is
\* ErrFailedToWrite, wrapping the error of the sink if there was one.
FailureReturned ==
  (wr.op # "none" /\ SinkFailed) =>
    /\ wr.state = "returned"
    /\ Is(wr.err, "ErrFailedToWrite")
    /\ sink.err # NoError => \E e \in SinkErrors : sink.err = e /\ Is(wr.err, e[1])
    /\ (wr.op = "WriteResponse" /\ sink.zero /\ sink.got = <<>>) => wr.at = 1

\* After a failed call of Write the sink gets no further call.
NoWriteAfterFailure == SinkFailed => sink' = sink

\* C23: when the sink reports zero bytes without an error, or returns an
\* error, the emitting method returns an error that is ErrFailedToWrite and
\* calls the sink no more; a zero on the first call of WriteResponse leaves
\* the headers and the body unwritten.
C23_WriteFailureStops == []FailureReturned /\ [][NoWriteAfterFailure]_vars

C23_Witness ==
  /\ wr.op = "WriteResponse"
  /\ wr.args.known
  /\ sink = [got |-> <<>>, zero |-> TRUE, err |-> NoError]
  /\ wr.state = "returned"
  /\ wr.err = ErrFailedToWrite

\* The stages of WriteResponse are on the sink in their order, and a status
\* code without a status line returns ErrUnrecognizedStatusCode with nothing
\* written.
ResponseInOrder ==
  wr.op = "WriteResponse" =>
    /\ wr.args.known =>
         /\ IsPrefix(sink.got, wr.args.line \o wr.args.block \o wr.args.body)
         /\ (wr.state = "returned" /\ wr.err = NoError) =>
              sink.got = wr.args.line \o wr.args.block \o wr.args.body
         /\ wr.state = "returned" => (wr.err = NoError \/ SinkFailed)
    /\ ~wr.args.known =>
         /\ wr.state = "returned"
         /\ wr.err = ErrUnrecognizedStatusCode
         /\ sink = NewSink

\* Once WriteResponse has returned nothing more is written.
NoStageAfterReturn == (wr.op = "WriteResponse" /\ wr.state = "returned") => sink' = sink

\* C24: WriteResponse puts the status line, then the header block ended by a
\* bare CRLF, then the body on the sink, in that order; if the status code has
\* no status line it returns ErrUnrecognizedStatusCode with nothing written,
\* and after a stage has failed no later stage is written and the error is
\* returned.
C24_ResponseOrder == []ResponseInOrder /\ [][NoStageAfterReturn]_vars

C24_Witness ==
  /\ wr.op = "WriteResponse"
  /\ wr.args.known
  /\ wr.args.body = <<"h", "e", "l">>
  /\ wr.state = "returned"
  /\ wr.err = NoError
  /\ sink.got = wr.args.line \o wr.args.block \o wr.args.body

\* ------------------------------------------------ partial-content responses

ErrRangeOutOfBounds == <<"ErrRangeOutOfBounds">>
ErrRangeEndLtStart == <<"ErrRangeEndLtStart">>

Range(start, end, endprovided, ok) == [start |-> start, end |-> end, endprovided |-> endprovided, ok |-> ok]

NoRange == Range(0, 0, FALSE, FALSE)

parseRangeEnd(st, en) == IF en.err # "nil" THEN NoRange ELSE Range(st, en.v, TRUE, TRUE)

parseRangeStart(st, last) ==
  IF st.err # "nil" THEN NoRange
  ELSE IF last = <<>> THEN Range(st.v, 0, FALSE, TRUE)
  ELSE parseRangeEnd(st.v, Atoi(last))

parseRangeParts(parts) ==
  IF Len(parts) # 2 THEN NoRange
  ELSE IF parts[1] = <<>> THEN NoRange
  ELSE parseRangeStart(Atoi(parts[1]), parts[2])

parseRange(s) ==
  IF ~HasPrefix(s, <<"b", "y", "t", "e", "s", "=">>) THEN NoRange
  ELSE parseRangeParts(SplitN2(TrimPrefix(s, <<"b", "y", "t", "e", "s", "=">>), <<"-">>))

\* An io.ReadSeeker: its bytes, and whether its Seek and its Read fail.
Source(content, seekFails, readFails) == [content |-> content, seekFails |-> seekFails, readFails |-> readFails]

Loaded(body, usedEnd, err) == [body |-> body, usedEnd |-> usedEnd, err |-> err]

\* io.ReadFull of n bytes at offset start.
ReadFull(f, start, n) ==
  IF f.readFails THEN [buf |-> <<>>, err |-> <<"EIO">>]
  ELSE IF start >= Len(f.content) THEN [buf |-> <<>>, err |-> <<"io.EOF">>]
  ELSE IF start + n > Len(f.content) THEN [buf |-> <<>>, err |-> <<"io.ErrUnexpectedEOF">>]
  ELSE [buf |-> SubSeq(f.content, start + 1, start + n), err |-> NoError]

loadRangeRead(end, r) ==
  IF r.err # NoError THEN Loaded(<<>>, 0, r.err) ELSE Loaded(r.buf, end, NoError)

\* The end is taken as given.
loadRangeFrom_Unclamped(f, contentSize, start, end) ==
  IF f.seekFails THEN Loaded(<<>>, 0, <<"EINVAL">>)
  ELSE loadRangeRead(end, ReadFull(f, start, (end - start) + 1))

loadRangeFrom(f, contentSize, start, end) ==
  IF f.seekFails THEN Loaded(<<>>, 0, <<"EINVAL">>)
  ELSE loadRangeRead(Min(end, contentSize - 1), ReadFull(f, start, (Min(end, contentSize - 1) - start) + 1))

loadRange(f, contentSize, start, end, endProvided) ==
  IF contentSize <= 0 THEN Loaded(<<>>, -1, ErrRangeOutOfBounds)
  ELSE IF start >= contentSize THEN Loaded(<<>>, 0, ErrRangeOutOfBounds)
  ELSE IF ~endProvided THEN loadRangeFrom(f, contentSize, start, contentSize - 1)
  ELSE IF end < start THEN Loaded(<<>>, 0, ErrRangeEndLtStart)
  ELSE loadRangeFrom(f, contentSize, start, end)

\* io.ReadAll
ReadAll(f) ==
  IF f.readFails THEN [buf |-> <<>>, err |-> <<"EIO">>] ELSE [buf |-> f.content, err |-> NoError]

Response(statusCode, h, body) == [statusCode |-> statusCode, h |-> h, body |-> body]

\* A response with a text body.
textResponse(statusCode, h, body) ==
  Response(statusCode, Replace(Replace(h, <<"C", "o", "n", "t", "e", "n", "t", "-", "T", "y", "p", "e">>, <<"t", "e", "x", "t", "/", "p", "l", "a", "i", "n">>), <<"C", "o", "n", "t", "e", "n", "t", "-", "L", "e", "n", "g", "t", "h">>, Itoa(Len(body))), body)

partialContentLoaded(h, contentSize, start, l) ==
  IF Is(l.err, "ErrRangeEndLtStart") \/ Is(l.err, "ErrRangeOutOfBounds")
  THEN Response(StatusRangeNotSatisfiable,
                Set(Replace(Replace(h, <<"C", "o", "n", "t", "e", "n", "t", "-", "T", "y", "p", "e">>, <<"t", "e", "x", "t", "/", "p", "l", "a", "i", "n">>), <<"C", "o", "n", "t", "e", "n", "t", "-", "L", "e", "n", "g", "t", "h">>, Itoa(Len(<<"i", "n", "v", "a", "l", "i", "d", " ", "r", "a", "n", "g", "e", " ", "p", "r", "o", "v", "i", "d", "e", "d">>))),
                    <<"C", "o", "n", "t", "e", "n", "t", "-", "R", "a", "n", "g", "e">>, <<"b", "y", "t", "e", "s", " ", "*", "/">> \o Itoa(contentSize)),
                <<"i", "n", "v", "a", "l", "i", "d", " ", "r", "a", "n", "g", "e", " ", "p", "r", "o", "v", "i", "d", "e", "d">>)
  ELSE IF l.err # NoError THEN textResponse(StatusInternalServerError, h, <<"e", "r", "r", "o", "r", " ", "l", "o", "a", "d", "i", "n", "g", " ", "r", "a", "n", "g", "e">>)
  ELSE Response(StatusPartialContent,
                Set(Replace(h, <<"C", "o", "n", "t", "e", "n", "t", "-", "L", "e", "n", "g", "t", "h">>, Itoa(Len(l.body))), <<"C", "o", "n", "t", "e", "n", "t", "-", "R", "a", "n", "g", "e">>,
                    <<"b", "y", "t", "e", "s", " ">> \o Itoa(start) \o <<"-">> \o Itoa(l.usedEnd) \o <<"/">> \o Itoa(contentSize)),
                l.body)

partialContentRange(h, f, contentSize, r) ==
  IF ~r.ok THEN textResponse(StatusBadRequest, h, <<"i", "n", "v", "a", "l", "i", "d", " ", "r", "a", "n", "g", "e">>)
  ELSE partialContentLoaded(h, contentSize, r.start, loadRange(f, contentSize, r.start, r.end, r.endprovided))

partialContentAll(h, all) ==
  IF all.err # NoError THEN textResponse(StatusInternalServerError, h, <<"e", "r", "r", "o", "r", " ", "l", "o", "a", "d", "i", "n", "g", " ", "c", "o", "n", "t", "e", "n", "t">>)
  ELSE Response(StatusOK, Replace(h, <<"C", "o", "n", "t", "e", "n", "t", "-", "L", "e", "n", "g", "t", "h">>, Itoa(Len(all.buf))), all.buf)

partialContentOf(h, f, contentSize, rangeStr) ==
  IF rangeStr.ok THEN partialContentRange(h, f, contentSize, parseRange(rangeStr.v))
  ELSE partialContentAll(h, ReadAll(f))

\* The response WritePartialContentResponse hands to WriteResponse.
partialContent(f, contentSize, contentType, req) ==
  partialContentOf(Set(Replace(GetDefaultHeaders(0), <<"C", "o", "n", "t", "e", "n", "t", "-", "T", "y", "p", "e">>, contentType), <<"A", "c", "c", "e", "p", "t", "-", "R", "a", "n", "g", "e", "s">>, <<"b", "y", "t", "e", "s">>),
                   f, contentSize, Get(req.Headers, <<"R", "a", "n", "g", "e">>))

WritePartialContentResponse(resp, order) == WriteResponse(resp.statusCode, resp.h, order, resp.body)

\* A bytes.Buffer as the sink: every Write takes all it is handed.
RECURSIVE writeToBuffer(_, _)
writeToBuffer(w, s) ==
  IF w.state = "returned" THEN [wr |-> w, sink |-> s]
  ELSE writeToBuffer(afterWrite(w, Len(remaining(w)), NoError),
                     sinkWrite(s, remaining(w), Len(remaining(w)), NoError))

\* The requests: without a Range field, or with one of these values.
RangeValues ==
  {<<"b", "y", "t", "e", "s", "=", "0", "-">>,
   <<"b", "y", "t", "e", "s", "=", "1", "-", "2">>,
   <<"b", "y", "t", "e", "s", "=", "2", "-", "9">>,
   <<"b", "y", "t", "e", "s", "=", "3", "-", "3">>,
   <<"b", "y", "t", "e", "s", "=", "2", "-", "1">>,
   <<"b", "y", "t", "e", "s", "=", "4", "-">>,
   <<"b", "y", "t", "e", "s", "=", "5", "-", "6">>,
   <<"b", "y", "t", "e", "s", "=", "-", "2">>,
   <<"b", "y", "t", "e", "s", "=", "0", "-", "1", ",", "2", "-", "3">>,
   <<"b", "y", "t", "e", "s", "=", "a", "-", "1">>,
   <<"n", "o", "p", "e", "=", "0", "-", "1">>,
   <<"b", "y", "t", "e", "s", "=", "1">>,
   <<"b", "y", "t", "e", "s", "=">>,
   <<"b", "y", "t", "e", "s", "=", "+", "1", "-", "2">>,
   <<"b", "y", "t", "e", "s", "=", "1", "-", "+", "2">>,
   <<"b", "y", "t", "e", "s", "=", "1", "-", "-", "1">>,
   <<"b", "y", "t", "e", "s", "=", "1", "-", "x">>,
   <<"b", "y", "t", "e", "s", "=", "0", "1", "-", "0", "0", "2">>}

RangeRequests ==
  {[Headers |-> NewHeaders]} \cup {[Headers |-> Set(NewHeaders, <<"R", "a", "n", "g", "e">>, v)] : v \in RangeValues}

\* The source holds the first MaxContent bytes of this text.
MaxContent == 4

contentText == <<"0", "1", "2", "3", "4", "5", "6", "7", "8", "9">>

\* The source is as long as the caller says, or one byte shorter; or it fails.
Sources ==
  {Source(SubSeq(contentText, 1, MaxContent), seekFails, readFails) :
     seekFails \in BOOLEAN, readFails \in BOOLEAN}
  \cup {Source(SubSeq(contentText, 1, MaxContent - 1), FALSE, FALSE)}

ContentSizes == {0, MaxContent}

PartialContentWritten(f, contentSize, req, resp, flushed) ==
  /\ wr' = flushed.wr
  /\ sink' = flushed.sink
  /\ UNCHANGED <<requestVars, headerVars, routerVars, serverVars>>

PartialContentCalled(f, contentSize, req, resp) ==
  \E order \in Orders(DOMAIN resp.h) :
    PartialContentWritten(f, contentSize, req, resp,
      writeToBuffer(startCall("WritePartialContentResponse",
                              [f |-> f, contentSize |-> contentSize, req |-> req, resp |-> resp],
                              WritePartialContentResponse(resp, order)),
                    NewSink))

WritePartialContentResponseOp ==
  /\ wr.op = "none"
  /\ \E f \in Sources, contentSize \in ContentSizes, req \in RangeRequests :
       PartialContentCalled(f, contentSize, req, partialContent(f, contentSize, <<"v", "i", "d", "e", "o", "/", "m", "p", "4">>, req))

NextRange == WritePartialContentResponseOp

SpecRange == InitWriter /\ [][NextRange]_vars

\* ------------------------------------------- claims: partial-content responses

PartialContent == wr.op = "WritePartialContentResponse"

\* The value of the Range field of the request, if it has one.
RangeGiven == PartialContent /\ <<"r", "a", "n", "g", "e">> \in DOMAIN wr.args.req.Headers

RangeText == wr.args.req.Headers[<<"r", "a", "n", "g", "e">>]

Digits(s) == \A i \in 1..Len(s) : s[i] \in {"0", "1", "2", "3", "4", "5", "6", "7", "8", "9"}

\* The grammar of the Range field: "bytes=" 1*DIGIT "-" *DIGIT.
RangeSpec(rest, i) ==
  /\ i >= 1
  /\ Digits(SubSeq(rest, 1, i))
  /\ Digits(SubSeq(rest, i + 2, Len(rest)))

RangeGrammar(s) ==
  /\ HasPrefix(s, <<"b", "y", "t", "e", "s", "=">>)
  /\ RangeSpec(SubSeq(s, 7, Len(s)), Index(SubSeq(s, 7, Len(s)), <<"-">>))

\* The positions a value of the grammar names.
FirstPos(s) == NumVal(SubSeq(s, 7, 6 + Index(SubSeq(s, 7, Len(s)), <<"-">>)), 10)

LastText(s) == SubSeq(s, 8 + Index(SubSeq(s, 7, Len(s)), <<"-">>), Len(s))

HasLast(s) == LastText(s) # <<>>

LastPos(s) == NumVal(LastText(s), 10)

Unsatisfiable(s, total) ==
  \/ FirstPos(s) >= total
  \/ HasLast(s) /\ LastPos(s) < FirstPos(s)
  \/ total <= 0

UsedEnd(s, total) == IF HasLast(s) /\ LastPos(s) < total - 1 THEN LastPos(s) ELSE total - 1

\* The source fails to seek, or to deliver the bytes up to the end used.
SourceFails(f, s, total) == f.seekFails \/ f.readFails \/ Len(f.content) < UsedEnd(s, total) + 1

ExpectedStatus(f, s, total) ==
  IF ~RangeGrammar(s) THEN StatusBadRequest
  ELSE IF Unsatisfiable(s, total) THEN StatusRangeNotSatisfiable
  ELSE IF SourceFails(f, s, total) THEN StatusInternalServerError
  ELSE StatusPartialContent

RangeClassified ==
  /\ wr.args.resp.statusCode = ExpectedStatus(wr.args.f, RangeText, wr.args.contentSize)
  /\ wr.args.resp.statusCode = StatusBadRequest => wr.args.resp.body = <<"i", "n", "v", "a", "l", "i", "d", " ", "r", "a", "n", "g", "e">>
  /\ wr.args.resp.statusCode = StatusRangeNotSatisfiable =>
       GetKey(wr.args.resp.h, <<"c", "o", "n", "t", "e", "n", "t", "-", "r", "a", "n", "g", "e">>) = [v |-> <<"b", "y", "t", "e", "s", " ", "*", "/">> \o FormatDec(wr.args.contentSize), ok |-> TRUE]

\* C25: for a request with a Range field the status is 400 (body "invalid
\* range") exactly when the value is not of the grammar "bytes=" 1*DIGIT "-"
\* *DIGIT; otherwise 416 with Content-Range "bytes */<total>" exactly when the
\* start is at or past the total size, an end is given below the start, or
\* the total size is not positive; otherwise 500 when the source fails to
\* seek or read; otherwise 206.
C25_RangeStatus == RangeGiven => RangeClassified

\* The same for the values in which no byte position carries a sign.
Signed(s) == \E i \in 1..(Len(s) - 1) : s[i] \in {"=", "-"} /\ s[i + 1] \in {"+", "-"}

RangeStatusUnsigned == (RangeGiven /\ ~Signed(RangeText)) => RangeClassified

\* A 206 response for the bytes s..e of a source of total bytes.
IsPartial(resp, f, s, e, total) ==
  /\ e < Len(f.content)
  /\ resp.body = SubSeq(f.content, s + 1, e + 1)
  /\ GetKey(resp.h, <<"c", "o", "n", "t", "e", "n", "t", "-", "l", "e", "n", "g", "t", "h">>) = [v |-> FormatDec((e - s) + 1), ok |-> TRUE]
  /\ GetKey(resp.h, <<"c", "o", "n", "t", "e", "n", "t", "-", "r", "a", "n", "g", "e">>) =
       [v |-> <<"b", "y", "t", "e", "s", " ">> \o FormatDec(s) \o <<"-">> \o FormatDec(e) \o <<"/">> \o FormatDec(total), ok |-> TRUE]

Satisfiable(f, s, total) ==
  RangeGrammar(s) /\ ~Unsatisfiable(s, total) /\ ~SourceFails(f, s, total)

\* C26: for a positive total size, a start below it and no end or an end not
\* below the start, the 206 response has used_end = min(end, total_size - 1)
\* (total_size - 1 without an end), the source bytes start..used_end as its
\* body, their number as Content-Length and "bytes <start>-<used_end>/<total>"
\* as Content-Range; so 0 <= start <= used_end <= total_size - 1 in every 206
\* response.
C26_RangeContent ==
  RangeGiven =>
    /\ Satisfiable(wr.args.f, RangeText, wr.args.contentSize) =>
         /\ wr.args.resp.statusCode = StatusPartialContent
         /\ IsPartial(wr.args.resp, wr.args.f, FirstPos(RangeText),
                      UsedEnd(RangeText, wr.args.contentSize), wr.args.contentSize)
    /\ wr.args.resp.statusCode = StatusPartialContent =>
         \E s \in 0..(wr.args.contentSize - 1) : \E e \in s..(wr.args.contentSize - 1) :
           IsPartial(wr.args.resp, wr.args.f, s, e, wr.args.contentSize)

C26_Witness ==
  /\ RangeGiven
  /\ RangeText = <<"b", "y", "t", "e", "s", "=", "2", "-", "9">>
  /\ wr.args.contentSize = MaxContent
  /\ wr.args.resp.statusCode = StatusPartialContent
  /\ wr.args.resp.body = SubSeq(contentText, 3, MaxContent)
  /\ wr.state = "returned"
  /\ HasPrefix(sink.got, statusLine(StatusPartialContent))

\* ------------------------------------------------------------------ server

\* err.Error() of the errors RequestFromReader returns.  (A strconv error also
\* names the function and quotes the text it could not parse, and a read
\* error of a socket names its addresses: the model keeps the last part.)
errorText(err) ==
  CASE err = "ErrMalformedRequestLine" -> <<"m", "a", "l", "f", "o", "r", "m", "e", "d", " ", "r", "e", "q", "u", "e", "s", "t", "-", "l", "i", "n", "e">>
    [] err = "ErrUnsupportedVersion" -> <<"u", "n", "s", "u", "p", "p", "o", "r", "t", "e", "d", " ", "h", "t", "t", "p", " ", "v", "e", "r", "s", "i", "o", "n">>
    [] err = "ErrReqInErrState" -> <<"r", "e", "q", "u", "e", "s", "t", " ", "i", "n", " ", "e", "r", "r", "o", "r", " ", "s", "t", "a", "t", "e">>
    [] err = "ErrMalformedHeader" -> <<"m", "a", "l", "f", "o", "r", "m", "e", "d", " ", "h", "e", "a", "d", "e", "r">>
    [] err = "ErrMalformedFieldLine" -> <<"m", "a", "l", "f", "o", "r", "m", "e", "d", " ", "f", "i", "e", "l", "d", " ", "l", "i", "n", "e">>
    [] err = "ErrMalformedHeaderName" -> <<"m", "a", "l", "f", "o", "r", "m", "e", "d", " ", "h", "e", "a", "d", "e", "r", " ", "n", "a", "m", "e">>
    [] err = "ErrSyntax" -> <<"i", "n", "v", "a", "l", "i", "d", " ", "s", "y", "n", "t", "a", "x">>
    [] err = "io.EOF" -> <<"E", "O", "F">>
    [] OTHER -> <<"c", "o", "n", "n", "e", "c", "t", "i", "o", "n", " ", "r", "e", "s", "e", "t", " ", "b", "y", " ", "p", "e", "e", "r">>

\* The status of the response handle writes for an error of RequestFromReader.
\* (request.go declares no ErrMalformedChunkedBody; handle names it.)
statusOfError(err) ==
  IF err = "ErrUnsupportedVersion" THEN StatusHttpVersionNotSupported
  ELSE IF err \in {"ErrMalformedRequestLine", "ErrMalformedFieldLine", "ErrMalformedHeader",
                   "ErrMalformedHeaderName", "ErrMalformedChunkedBody"}
       THEN StatusBadRequest
  ELSE StatusInternalServerError

\* A Server: the handler and the router given to Serve (either may be nil),
\* the closed flag, the listener, where its accept loop is, and how many
\* statements of Close have run.
Server(handler, router) ==
  [handler |-> handler, router |-> router, closed |-> FALSE, listener |-> "open", loop |-> "accept",
   closing |-> 0]

\* The connection handed to handle: where handle is, the handlers it invoked,
\* the responses it wrote itself, what it logged, and what the handler returned.
NewConn == [pc |-> "parse", invoked |-> <<>>, responses |-> 0, logged |-> <<>>, err |-> NoError]

\* How handle finds the handler: "handler", "router" or "none".
resolve_RouterFirst(s) ==
  IF s.router # 0 THEN "router" ELSE IF s.handler # NilHandler THEN "handler" ELSE "none"

resolve(s) ==
  IF s.handler # NilHandler THEN "handler" ELSE IF s.router # 0 THEN "router" ELSE "none"

\* What a handler does with the writer: the two handlers of the router write
\* an empty 404 or 405, the others a 200 with a body.
handlerResponse(h) ==
  IF h = notFoundHandler THEN Response(StatusNotFound, GetDefaultHeaders(0), <<>>)
  ELSE IF h = methodNotAllowedHandler THEN Response(StatusMethodNotAllowed, GetDefaultHeaders(0), <<>>)
  ELSE Response(StatusOK, GetDefaultHeaders(2), <<"o", "k">>)

\* handle writes a response of its own and returns.
Responds(statusCode, body, log) ==
  /\ \E order \in Orders(DOMAIN GetDefaultHeaders(Len(body))) :
       wr' = startCall("WriteResponse", [statusCode |-> statusCode, body |-> body],
                       WriteResponse(statusCode, GetDefaultHeaders(Len(body)), order, body))
  /\ conn' = [conn EXCEPT !.pc = "respond", !.responses = conn.responses + 1,
                          !.logged = conn.logged \o log]
  /\ UNCHANGED <<sink, srv, requestVars, headerVars, routerVars>>

\* handle calls the handler, which starts to write its response.
Invokes(h, resp, looked) ==
  /\ \E order \in Orders(DOMAIN resp.h) :
       wr' = startCall("WriteResponse", [statusCode |-> resp.statusCode, body |-> resp.body],
                       WriteResponse(resp.statusCode, resp.h, order, resp.body))
  /\ conn' = [conn EXCEPT !.pc = "handler", !.invoked = Append(conn.invoked, h)]
  /\ lookup' = looked
  /\ UNCHANGED <<sink, srv, requestVars, headerVars, nodes, groups, regs, lastReg, run>>

InvokesFound(res) ==
  Invokes(res.handler, handlerResponse(res.handler),
          [op |-> "lookup", g |-> srv.router, method |-> result.req.RequestLine.Method,
           target |-> result.req.RequestLine.RequestTarget, res |-> res])

Resolved(how) ==
  IF how = "handler" THEN Invokes(srv.handler, handlerResponse(srv.handler), lookup)
  ELSE IF how = "router" THEN InvokesFound(GetHandler(nodes, groups[srv.router].router, result.req))
  ELSE Responds(StatusInternalServerError, <<>>, <<"handler function does not exist">>)

\* RequestFromReader has returned: handle answers an error, or finds the
\* handler and calls it.
HandleParsed ==
  /\ conn.pc = "parse"
  /\ pc = "returned"
  /\ IF result.err # "nil" THEN Responds(statusOfError(result.err), errorText(result.err), <<>>)
     ELSE Resolved(resolve(srv))

\* A Write on the connection takes all it is handed, or fails.
ConnWriteStepOf(p) ==
  \/ /\ sink' = sinkWrite(sink, p, Len(p), NoError)
     /\ wr' = afterWrite(wr, Len(p), NoError)
  \/ \E err \in SinkErrors :
       /\ sink' = sinkWrite(sink, p, 0, err)
       /\ wr' = afterWrite(wr, 0, err)

ConnWriteStep ==
  /\ conn.pc \in {"respond", "handler"}
  /\ Writing
  /\ ConnWriteStepOf(remaining(wr))
  /\ UNCHANGED <<requestVars, headerVars, routerVars, serverVars>>

\* handle returns after its own response, whatever WriteResponse returned:
\* the deferred Close runs.
RespondReturn ==
  /\ conn.pc = "respond"
  /\ ~Writing
  /\ conn' = [conn EXCEPT !.pc = "closed"]
  /\ UNCHANGED <<srv, requestVars, headerVars, routerVars, writerVars>>

\* The errors a handler returns besides those of the writer.
HandlerErrors == {NoError, <<"EPIPE">>, <<"ECONNRESET">>, <<"net.ErrClosed">>, <<"EIO">>}

\* An error of the handler leaves the connection open.
handlerReturned_LeavesOpen(c, err) ==
  IF err = NoError THEN [c EXCEPT !.pc = "closed", !.err = err]
  ELSE [c EXCEPT !.pc = "returned", !.err = err]

\* The handler has returned err: a broken pipe, a reset and a closed
\* connection are dropped, any other error is logged; the deferred Close runs.
handlerReturned(c, err) ==
  IF Is(err, "EPIPE") \/ Is(err, "ECONNRESET") \/ Is(err, "net.ErrClosed") \/ err = NoError
  THEN [c EXCEPT !.pc = "closed", !.err = err]
  ELSE [c EXCEPT !.pc = "closed", !.err = err, !.logged = c.logged \o <<"error from handler">>]

\* The handler returns the error of its WriteResponse, or one of its own.
HandlerReturn ==
  /\ conn.pc = "handler"
  /\ ~Writing
  /\ \E err \in (IF wr.err # NoError THEN {wr.err} ELSE HandlerErrors) :
       conn' = handlerReturned(conn, err)
  /\ UNCHANGED <<srv, requestVars, headerVars, routerVars, writerVars>>

\* What the peers send.  fault says what is wrong with the request: "none",
\* "version", "line", "header", "fieldline", "name" or "chunk".
ConnInput(in, fault) ==
  [f \in DOMAIN in \cup {"fault"} |-> IF f = "fault" THEN fault ELSE in[f]]

Request(line, fields) == [BaseInput EXCEPT !.line = line, !.fields = fields]

ConnInputs ==
  {ConnInput(Request(<<"G", "E", "T", " ", "/", " ", "H", "T", "T", "P", "/", "1", ".", "1">>, <<>>), "none"),
   ConnInput(Request(<<"P", "O", "S", "T", " ", "/", " ", "H", "T", "T", "P", "/", "1", ".", "1">>, <<>>), "none"),
   ConnInput(Request(<<"G", "E", "T", " ", "/", "x", " ", "H", "T", "T", "P", "/", "1", ".", "1">>, <<<<"H", "o", "s", "t", ":", " ", "a">>>>), "none"),
   ConnInput(Request(<<"G", "E", "T", " ", "/", " ", "H", "T", "T", "P", "/", "1", ".", "0">>, <<>>), "version"),
   ConnInput(Request(<<"G", "E", "T", " ", "/">>, <<>>), "line"),
   ConnInput(Request(<<"G", "E", "T", " ", "/", " ", "H", "T", "T", "P", "/", "1", ".", "1">>, <<<<"H", "o", "s", "t">>>>), "header"),
   ConnInput(Request(<<"G", "E", "T", " ", "/", " ", "H", "T", "T", "P", "/", "1", ".", "1">>, <<<<"H", "o", "s", "t", " ", ":", " ", "a">>>>), "fieldline"),
   ConnInput(Request(<<"G", "E", "T", " ", "/", " ", "H", "T", "T", "P", "/", "1", ".", "1">>, <<<<"H", " ", "s", "t", ":", " ", "a">>>>), "name"),
   ConnInput(ChunkedInput(<<<<"a">>>>, "badsize", FALSE, <<>>), "chunk")}

\* The router of main, with one route; and the handler given to Serve.
ServedNodes == GET(NewRouterNodes, NewRouter, <<"/">>, HandlerOf("h1", 1)).nodes

Servers == {Server(h, r) : h \in {NilHandler, HandlerOf("h0", 0)}, r \in {0, 1}}

\* Every server gets the requests that parse; the server of main, with its
\* router, gets the others too.
Served(in, s) == in.fault = "none" \/ s = Server(NilHandler, 1)

InitConn ==
  /\ input \in ConnInputs
  /\ stream = Wire(input)
  /\ pos = 0
  /\ buf = <<>>
  /\ request = newRequest
  /\ pc = "loop"
  /\ result = [req |-> Nil, err |-> "nil"]
  /\ HeadersIdle
  /\ nodes = ServedNodes
  /\ groups = <<RouterValue(NewRouter, 0, Meaning(<<>>, <<>>))>>
  /\ regs = <<>>
  /\ lastReg = NoOp
  /\ lookup = NoOp
  /\ run = NoOp
  /\ sink = NewSink
  /\ wr = NoOp
  /\ srv \in Servers
  /\ Served(input, srv)
  /\ conn = NewConn

NextConn ==
  \/ ReadStep
  \/ ReadFail
  \/ Finish
  \/ HandleParsed
  \/ ConnWriteStep
  \/ RespondReturn
  \/ HandlerReturn

SpecConn == InitConn /\ [][NextConn]_vars

\* handle runs in a goroutine of its own, and each Read and Write on the
\* connection returns.
SpecConnFair ==
  SpecConn /\ WF_vars(ReadFail \/ RespondReturn \/ HandlerReturn \/ ConnWriteStep \/ Finish
                       \/ HandleParsed \/ ReadStep)

\* -------------------------------------------------------- claims: server

\* RequestFromReader returned an error and handle has acted on it.
ParseFailed == conn.pc # "parse" /\ result.err # "nil"

\* The status the peer is owed: 500 when the reader failed; else by what is
\* wrong with the request.
OwedStatus ==
  IF result.err \in ReadErrors THEN StatusInternalServerError
  ELSE IF input.fault = "version" THEN StatusHttpVersionNotSupported
  ELSE IF input.fault \in {"line", "header", "fieldline", "name", "chunk"} THEN StatusBadRequest
  ELSE StatusInternalServerError

OneErrorResponse(statusCode) ==
  /\ conn.responses = 1
  /\ conn.invoked = <<>>
  /\ wr.op = "WriteResponse"
  /\ wr.args.statusCode = statusCode
  /\ wr.args.body = errorText(result.err)
  /\ (conn.pc = "closed" /\ ~SinkFailed) =>
       /\ HasPrefix(sink.got, statusLine(statusCode))
       /\ HasSuffix(sink.got, sepCRLF \o errorText(result.err))

\* C27: when request parsing fails handle writes exactly one response and
\* invokes no handler: 505 for an unsupported version; 400 for a malformed
\* request line, header, field line, header name or chunked body; 500 for any
\* other error, such as an unexpected EOF; with the error text as body.
C27_ParseErrorStatus == ParseFailed => OneErrorResponse(OwedStatus)

\* The same by the error RequestFromReader returned.
ParseErrorStatusByError == ParseFailed => OneErrorResponse(statusOfError(result.err))

\* At most one handler is invoked.
OneHandler == Len(conn.invoked) <= 1

\* Once RequestFromReader has returned nothing more is read or parsed.
OneRequest == pc = "returned" => UNCHANGED requestVars

\* After the handler has returned an error, and after the connection is
\* closed, nothing is written to it, and it stays closed.
QuietAfterReturn == (conn.err # NoError \/ conn.pc = "closed") => (sink' = sink /\ conn' = conn)

Closed == conn.pc = "closed"

\* C28: for a connection the server parses at most one request, invokes at
\* most one handler, and closes the connection in the end on every path (parse
\* error, no handler, handler success, handler error, logged or dropped), and
\* writes nothing to it after the handler has returned an error.
C28_ConnLifecycle == []OneHandler /\ [][OneRequest /\ QuietAfterReturn]_vars /\ <>Closed

C28_Witness ==
  /\ Closed
  /\ result.err = "nil"
  /\ Len(conn.invoked) = 1
  /\ conn.err = <<"EIO">>
  /\ conn.logged = <<"error from handler">>
  /\ sink.got # <<>>

\* The handler the router holds for the request of an input.
RouteOf(line) ==
  IF line = <<"G", "E", "T", " ", "/", " ", "H", "T", "T", "P", "/", "1", ".", "1">> THEN HandlerOf("h1", 1)
  ELSE IF line = <<"P", "O", "S", "T", " ", "/", " ", "H", "T", "T", "P", "/", "1", ".", "1">> THEN methodNotAllowedHandler
  ELSE notFoundHandler

\* C30: a handler given to Serve is invoked and the router is not consulted;
\* else, with a router, the handler GetHandler returns is invoked; else a 500
\* response is written and no handler runs.
C30_HandlerPrecedence ==
  (conn.pc # "parse" /\ result.err = "nil") =>
    IF srv.handler # NilHandler
    THEN conn.invoked = <<srv.handler>> /\ lookup = NoOp /\ conn.responses = 0
    ELSE IF srv.router # 0
    THEN /\ lookup.op = "lookup"
         /\ lookup.res.handler = RouteOf(input.line)
         /\ conn.invoked = <<lookup.res.handler>>
         /\ conn.responses = 0
    ELSE /\ conn.invoked = <<>>
         /\ lookup = NoOp
         /\ conn.responses = 1
         /\ wr.args.statusCode = StatusInternalServerError

C30_Witness ==
  /\ srv.handler = HandlerOf("h0", 0)
  /\ srv.router = 1
  /\ Closed
  /\ result.err = "nil"
  /\ conn.invoked = <<HandlerOf("h0", 0)>>
  /\ lookup = NoOp
  /\ HasPrefix(sink.got, statusLine(StatusOK))

\* ---------------------------------------------------------------------------
\* The accept loop and Close
\* ---------------------------------------------------------------------------

\* Close, one statement at a time: the flag is stored, then the listener is
\* closed.
Close_ListenerFirst(s, statement) ==
  IF statement = 1 THEN [s EXCEPT !.listener = "closed"] ELSE [s EXCEPT !.closed = TRUE]

Close(s, statement) ==
  IF statement = 1 THEN [s EXCEPT !.closed = TRUE] ELSE [s EXCEPT !.listener = "closed"]

\* What the accept loop has done: the connections it handed to handle, the
\* accept errors it logged, and the accept errors a closed listener gave it.
NewLoop == [dispatched |-> 0, logged |-> 0, late |-> 0]

MaxConns == 3
MaxTransient == 3
MaxLate == 2

CloseOp ==
  /\ srv.closing < 2
  /\ srv' = [Close(srv, srv.closing + 1) EXCEPT !.closing = @ + 1]
  /\ UNCHANGED <<conn, requestVars, headerVars, routerVars, writerVars>>

\* Accept returns a connection: only an open listener does.
AcceptConn ==
  /\ srv.loop = "accept"
  /\ srv.listener = "open"
  /\ conn.dispatched < MaxConns
  /\ srv' = [srv EXCEPT !.loop = "go"]
  /\ UNCHANGED <<conn, requestVars, headerVars, routerVars, writerVars>>

\* Accept returns an error on an open listener.
AcceptTransient ==
  /\ srv.loop = "accept"
  /\ srv.listener = "open"
  /\ conn.logged < MaxTransient
  /\ srv' = [srv EXCEPT !.loop = "err"]
  /\ UNCHANGED <<conn, requestVars, headerVars, routerVars, writerVars>>

\* Accept on a closed listener returns an error, always.
AcceptClosed ==
  /\ srv.loop = "accept"
  /\ srv.listener = "closed"
  /\ conn.late < MaxLate
  /\ srv' = [srv EXCEPT !.loop = "err"]
  /\ conn' = [conn EXCEPT !.late = @ + 1]
  /\ UNCHANGED <<requestVars, headerVars, routerVars, writerVars>>

\* After an error the loop loads the flag: set, it returns; unset, it logs
\* and accepts again.
LoadClosed ==
  /\ srv.loop = "err"
  /\ IF srv.closed
     THEN srv' = [srv EXCEPT !.loop = "exited"] /\ conn' = conn
     ELSE srv' = [srv EXCEPT !.loop = "accept"] /\ conn' = [conn EXCEPT !.logged = @ + 1]
  /\ UNCHANGED <<requestVars, headerVars, routerVars, writerVars>>

\* go s.handle(conn)
Dispatch ==
  /\ srv.loop = "go"
  /\ srv' = [srv EXCEPT !.loop = "accept"]
  /\ conn' = [conn EXCEPT !.dispatched = @ + 1]
  /\ UNCHANGED <<requestVars, headerVars, routerVars, writerVars>>

InitListen ==
  /\ RequestIdle /\ HeadersIdle /\ RouterIdle /\ WriterIdle
  /\ srv \in Servers
  /\ conn = NewLoop

NextListen == CloseOp \/ AcceptConn \/ AcceptTransient \/ AcceptClosed \/ LoadClosed \/ Dispatch

SpecListen == InitListen /\ [][NextListen]_vars

\* The loop is a goroutine of its own and runs when it can; Accept is sure to
\* return only on a closed listener.
SpecListenFair == SpecListen /\ WF_vars(AcceptClosed \/ LoadClosed \/ Dispatch)

FlagBeforeListener == srv.listener = "closed" => srv.closed

NoSpin == conn.late <= 1

LoadDecides ==
  (srv.loop = "err" /\ srv'.loop # "err") =>
    IF srv.closed
    THEN srv'.loop = "exited" /\ conn' = conn
    ELSE srv'.loop = "accept" /\ conn'.logged = conn.logged + 1 /\ conn'.dispatched = conn.dispatched

NoDispatchAfterExit == srv.loop = "exited" => (srv'.loop = "exited" /\ conn' = conn)

CloseReturned == srv.closing = 2

LoopExited == srv.loop = "exited"

\* C29: Close sets the flag before it closes the listener, so a closed
\* listener is never seen with the flag unset and gives the loop at most one
\* error; an accept error with the flag set makes the loop return, one with the
\* flag unset is logged and the loop accepts again; once Close has returned the
\* loop eventually returns; nothing is dispatched after the loop has returned.
C29_AcceptLoopShutdown ==
  /\ [](FlagBeforeListener /\ NoSpin)
  /\ [][LoadDecides /\ NoDispatchAfterExit]_vars
  /\ (CloseReturned ~> LoopExited)

C29_Witness ==
  /\ CloseReturned
  /\ LoopExited
  /\ conn.late = 1
  /\ conn.logged > 0
  /\ conn.dispatched > 0


\* ------------------------------------------------- paths and methods at the edges

\* The paths the callers register at the edges of the grammar: no path, no
\* leading slash, the root, a trailing slash, and two capture names at one place.
EdgePaths ==
  {Path(<<>>, <<>>), Path(<<"u">>, <<>>), Path(<<"/">>, <<>>),
   Path(<<"/", "u">>, <<Static(segU)>>), Path(<<"/", "u", "/">>, <<Static(segU)>>),
   Path(<<"/", "u", "/", ":", "i", "d", "/", "p">>, <<Static(segU), Param(nameId), Static(segP)>>),
   Path(<<"/", "u", "/", ":", "x">>, <<Static(segU), Param(nameX)>>)}

EdgeHandlers == {"h1", "h2"}

\* The most routes registered at the edges.
MaxEdges == 2

\* The group /a of the root router.
EdgeGroupOp ==
  /\ Registering
  /\ Len(groups) = 1
  /\ MakeGroup(1, Prefix(<<"/", "a">>, <<"/", "a">>, <<Static(segA)>>))

EdgeRegisterOp ==
  /\ Registering
  /\ \E g \in 1..Len(groups), path \in EdgePaths, h \in EdgeHandlers :
       /\ RouteKey(<<"G", "E", "T">>, Path(path.text, GroupSegs(g) \o path.segs)) \notin DOMAIN regs
            => Cardinality(DOMAIN regs) < MaxEdges
       /\ Register(g, Path(path.text, GroupSegs(g) \o path.segs), <<"G", "E", "T">>, h)

\* The targets of the requests, each with the tokens it is made of.
EdgeTargets ==
  {Path(<<>>, <<>>), Path(<<"u">>, <<>>), Path(<<"/">>, <<>>),
   Path(<<"/", "u">>, <<segU>>), Path(<<"/", "u", "/">>, <<segU>>), Path(<<"/", "u", "/", "/">>, <<segU, <<>>>>),
   Path(<<"/", "u", "/", "7", "/", "p">>, <<segU, <<"7">>, segP>>), Path(<<"/", "u", "/", "/", "p">>, <<segU, <<>>, segP>>),
   Path(<<"/", "a">>, <<segA>>), Path(<<"/", "a", "/">>, <<segA>>)}

\* The method tokens of the requests: one of the router, and two it does not know.
EdgeMethods == {<<"G", "E", "T">>, <<"H", "E", "A", "D">>, <<"g", "e", "t">>}

EdgeLookupOp ==
  /\ Registering
  /\ \E method \in EdgeMethods, target \in EdgeTargets : Lookup(1, method, target)

NextPaths == EdgeGroupOp \/ EdgeRegisterOp \/ EdgeLookupOp

SpecPaths == InitRouter /\ [][NextPaths]_vars

\* The method tokens the router knows.
Vocabulary == {<<"G", "E", "T">>, <<"P", "O", "S", "T">>, <<"P", "U", "T">>, <<"D", "E", "L", "E", "T", "E">>, <<"P", "A", "T", "C", "H">>}

\* C31: a request whose method token is not GET, POST, PUT, DELETE or PATCH
\* gets the not-found handler, whatever is registered under its target, and
\* its path parameters are as they were.
C31_UnknownMethodNotFound ==
  (Looked /\ lookup.method \notin Vocabulary) =>
    /\ lookup.res.handler = notFoundHandler
    /\ lookup.res.params = mkReq(lookup.method, lookup.target.text).PathParams

C31_Witness ==
  /\ Looked
  /\ lookup.method = <<"H", "E", "A", "D">>
  /\ lookup.target.text = <<"/", "u", "/", "7", "/", "p">>
  /\ lookup.res.handler = notFoundHandler
  /\ GetHandler(nodes, groups[1].router, mkReq(<<"G", "E", "T">>, <<"/", "u", "/", "7", "/", "p">>)).handler = HandlerOf("h1", 1)

\* C32: a lookup that takes a parameter child records a captured value that is
\* not empty.
C32_ParamSegmentNonEmpty ==
  Looked => \A name \in DOMAIN lookup.res.params : lookup.res.params[name] # <<>>

\* The text of a route: a slash before each segment, a colon before a capture name.
RECURSIVE SpellFrom(_)
SpellFrom(segs) ==
  IF segs = <<>> THEN <<>>
  ELSE <<"/">> \o (IF segs[1].param THEN <<":">> \o segs[1].name ELSE segs[1].name)
       \o SpellFrom(Tail(segs))

Spell(segs) == IF segs = <<>> THEN <<"/">> ELSE SpellFrom(segs)

\* The error of a path that cannot be split into tokens.
TokenError(text) ==
  IF text = <<>> THEN "ErrRequestTargetEmpty"
  ELSE IF text[1] # "/" THEN "ErrMalformedRequestTarget"
  ELSE "nil"

\* The path a Router value splits: the path given, after the prefix of the group.
FullText(g, text) ==
  IF groups[g].given.norm = <<>> THEN text
  ELSE IF text = <<>> \/ text = <<"/">> THEN groups[g].given.norm
  ELSE IF text[1] # "/" THEN text
  ELSE groups[g].given.norm \o text

RegistrationTokenized ==
  lastReg.op = "register" =>
    IF TokenError(FullText(lastReg.g, lastReg.path.text)) # "nil"
    THEN lastReg.err = TokenError(FullText(lastReg.g, lastReg.path.text))
    ELSE lastReg.err \in {"nil", "ErrAmbiguousPathParams"}

LookupTokenized ==
  Looked =>
    IF TokenError(lookup.target.text) # "nil"
    THEN lookup.res.handler = notFoundHandler /\ lookup.res.runner = 0
    ELSE getTokens(lookup.target.text) = [tokens |-> lookup.target.segs, err |-> "nil"]

At(method, text) == GetHandler(nodes, groups[1].router, mkReq(method, text))

TrailingSlash ==
  ~Looked =>
    /\ At(<<"G", "E", "T">>, <<"/">>).runner = rootNode
    /\ \A k \in DOMAIN regs :
         /\ At(k.method, Spell(k.segs)).handler = regs[k]
         /\ k.segs # <<>> =>
              /\ At(k.method, Spell(k.segs) \o <<"/">>) = At(k.method, Spell(k.segs))
              /\ At(k.method, Spell(k.segs) \o <<"/", "/">>).runner # At(k.method, Spell(k.segs)).runner

\* C33: an empty path is refused with ErrRequestTargetEmpty and one without a
\* leading slash with ErrMalformedRequestTarget (a registration returns the
\* error, a lookup the not-found handler); "/" is the root node; one leading
\* and one trailing slash are dropped, not more, so a route is found under its
\* path with and without a trailing slash.
C33_PathTokenization == RegistrationTokenized /\ LookupTokenized /\ TrailingSlash

C33_Witness ==
  /\ Looked
  /\ lookup.target.text = <<"/", "a", "/">>
  /\ lookup.method = <<"G", "E", "T">>
  /\ lookup.res.handler = HandlerOf("h1", 2)
  /\ lastReg.op = "register"
  /\ lastReg.path.text = <<"/">>
  /\ lastReg.g = 2

StaticTokensDistinct(node) ==
  \A i, j \in 1..Len(nodes[node].children) :
    (/\ i # j
     /\ ~nodes[nodes[node].children[i]].isParam
     /\ ~nodes[nodes[node].children[j]].isParam)
      => nodes[nodes[node].children[i]].token # nodes[nodes[node].children[j]].token

TrieWellFormed ==
  \A node \in 1..Len(nodes) :
    Cardinality(ParamChildren(node)) <= 1 /\ StaticTokensDistinct(node)

NothingRemoved ==
  /\ Len(nodes') >= Len(nodes)
  /\ \A n \in 1..Len(nodes) :
       /\ nodes'[n].token = nodes[n].token
       /\ nodes'[n].isParam = nodes[n].isParam
       /\ Len(nodes'[n].children) >= Len(nodes[n].children)
       /\ SubSeq(nodes'[n].children, 1, Len(nodes[n].children)) = nodes[n].children
       /\ \A m \in 0..(methodCount - 1) :
            nodes[n].handlers[m] # NilHandler => nodes'[n].handlers[m] # NilHandler

LastWriteWins ==
  (DOMAIN regs' = DOMAIN regs /\ regs' # regs) =>
    /\ Len(nodes') = Len(nodes)
    /\ \A k \in DOMAIN regs :
         GetHandler(nodes', groups[1].router, mkReq(k.method, Spell(k.segs))).handler = regs'[k]

\* C35: every node has at most one parameter child and static children of
\* distinct tokens; no step removes a node, a child or a handler; registering a
\* method and path again sets the new handler and creates no node.
C35_TrieInvariant == []TrieWellFormed /\ [][NothingRemoved /\ LastWriteWins]_vars

C35_Witness ==
  /\ lastReg.op = "register"
  /\ lastReg.err = "ErrAmbiguousPathParams"
  /\ Len(nodes) >= 4
  /\ \E k \in DOMAIN regs : regs[k].h = "h2"
  /\ \E node \in 1..Len(nodes) : Cardinality(ParamChildren(node)) = 1

FailedCallsLeaveTrie ==
  ~Looked =>
    \A g \in 1..Len(groups), path \in EdgePaths :
      GET(nodes, groups[g].router, path.text, HandlerOf("h2", g)).err # "nil"
        => GET(nodes, groups[g].router, path.text, HandlerOf("h2", g)).nodes = nodes

OnlySuccessChanges ==
  (nodes' # nodes \/ regs' # regs) => (lastReg'.op = "register" /\ lastReg'.err = "nil")

\* C39: a registration that returns ErrRequestTargetEmpty,
\* ErrMalformedRequestTarget or ErrAmbiguousPathParams leaves the nodes as
\* they were, so every lookup after it answers as before it.
C39_FailedRegistrationNoEffect == []FailedCallsLeaveTrie /\ [][OnlySuccessChanges]_vars

C39_Witness ==
  /\ lastReg.op = "register"
  /\ lastReg.g = 2
  /\ lastReg.err = "ErrMalformedRequestTarget"
  /\ Len(nodes) > 2
  /\ GET(nodes, groups[1].router, <<"/", "u", "/", ":", "x">>, HandlerOf("h2", 1)).err = "ErrAmbiguousPathParams"

\* ------------------------------------------------------ lookups side by side

\* A connection handler inside GetHandler: the request it was given, and the
\* locals m, tokens and runner, with the place in the loop over the tokens.
Handling(req) ==
  [req |-> req, pc |-> "enter", m |-> methodCount, tokens |-> <<>>, i |-> 1, runner |-> 0,
   handler |-> NilHandler]

returned(p, handler) == [p EXCEPT !.pc = "returned", !.handler = handler]

\* GetHandler up to the loop: the method tag, the tokens, the root as runner.
getHandlerTokens(r, p, t) ==
  IF t.err # "nil" THEN returned(p, notFoundHandler)
  ELSE [p EXCEPT !.pc = "loop", !.tokens = t.tokens, !.runner = r.routes]

getHandlerEnter(r, p) ==
  IF getMethod(p.req.RequestLine.Method) >= methodCount THEN returned(p, notFoundHandler)
  ELSE getHandlerTokens(r, [p EXCEPT !.m = getMethod(p.req.RequestLine.Method)],
                        getTokens(p.req.RequestLine.RequestTarget))

\* The captured segment is kept in the node.
getHandlerToken_KeepsInNode(ns, p, c) ==
  IF c.child = 0 THEN [nodes |-> ns, p |-> returned(p, notFoundHandler)]
  ELSE [nodes |-> IF c.usedParam THEN [ns EXCEPT ![c.child].token = p.tokens[p.i]] ELSE ns,
        p |-> [p EXCEPT !.runner = c.child, !.i = @ + 1]]

\* One pass of the loop over the tokens, c being what matchChild returned.
getHandlerToken(ns, p, c) ==
  IF c.child = 0 THEN [nodes |-> ns, p |-> returned(p, notFoundHandler)]
  ELSE [nodes |-> ns,
        p |-> [p EXCEPT !.req.PathParams =
                          IF c.usedParam THEN putParam(@, ns[c.child].token, p.tokens[p.i]) ELSE @,
                        !.runner = c.child,
                        !.i = @ + 1]]

\* GetHandler from the loop on: a pass of it, or what follows it.
getHandlerLoop(ns, p) ==
  IF p.i > Len(p.tokens)
  THEN [nodes |-> ns,
        p |-> returned(p, GetHandlerFound(ns, p.runner, getHandler(ns, p.runner, p.m)))]
  ELSE getHandlerToken(ns, p, matchChild(ns, p.runner, p.tokens[p.i]))

\* The most connection handlers that look up at a time.
MaxHandlers == 2

\* The routers the handlers share, their routes registered at startup.
Shared(ns) == GET(ns, NewRouter, <<"/", "u", "/", "m", "e">>, HandlerOf("h2", 1)).nodes

SharedTries ==
  {Shared(GET(NewRouterNodes, NewRouter, <<"/", "u", "/", ":", "i", "d">>, HandlerOf("h1", 1)).nodes),
   Shared(POST(NewRouterNodes, NewRouter, <<"/", "u", "/", ":", "i", "d", "/", ":", "x">>, HandlerOf("h1", 1)).nodes)}

SharedTargets == {<<"/", "u", "/", "7">>, <<"/", "u", "/", "m", "e">>, <<"/", "u", "/", "7", "/", "9">>, <<"/", "x">>}

SharedRequests == {mkReq(method, target) : method \in {<<"G", "E", "T">>, <<"P", "O", "S", "T">>}, target \in SharedTargets}

GetHandlerStep(i, p) ==
  /\ nodes' = p.nodes
  /\ lookup' = [lookup EXCEPT !.procs[i] = p.p]
  /\ UNCHANGED <<groups, regs, lastReg, run, requestVars, headerVars, writerVars, serverVars>>

GetHandlerEnterOp ==
  /\ lookup.op = "lookups"
  /\ \E i \in 1..Len(lookup.procs) :
       /\ lookup.procs[i].pc = "enter"
       /\ GetHandlerStep(i, [nodes |-> nodes, p |-> getHandlerEnter(groups[1].router, lookup.procs[i])])

GetHandlerLoopOp ==
  /\ lookup.op = "lookups"
  /\ \E i \in 1..Len(lookup.procs) :
       /\ lookup.procs[i].pc = "loop"
       /\ GetHandlerStep(i, getHandlerLoop(nodes, lookup.procs[i]))

InitLookups ==
  /\ WriterIdle
  /\ ServerIdle
  /\ RequestIdle
  /\ HeadersIdle
  /\ nodes \in SharedTries
  /\ groups = <<RouterValue(NewRouter, 0, Meaning(<<>>, <<>>))>>
  /\ regs = <<>>
  /\ lastReg = NoOp
  /\ run = NoOp
  /\ \E reqs \in [1..MaxHandlers -> SharedRequests] :
       lookup = [op |-> "lookups", procs |-> [i \in 1..MaxHandlers |-> Handling(reqs[i])]]

NextLookups == GetHandlerEnterOp \/ GetHandlerLoopOp

SpecLookups == InitLookups /\ [][NextLookups]_vars

\* What GetHandler answers the handler's request when it runs alone.
Alone(p) ==
  GetHandler(nodes, groups[1].router,
             mkReq(p.req.RequestLine.Method, p.req.RequestLine.RequestTarget))

AsAlone ==
  \A i \in 1..Len(lookup.procs) :
    lookup.procs[i].pc = "returned" =>
      /\ lookup.procs[i].handler = Alone(lookup.procs[i]).handler
      /\ lookup.procs[i].req.PathParams = Alone(lookup.procs[i]).params

RouterUntouched == nodes' = nodes /\ groups' = groups

OwnRequestOnly ==
  \A i \in 1..Len(lookup.procs) :
    /\ lookup'.procs[i].req = [lookup.procs[i].req EXCEPT !.PathParams = lookup'.procs[i].req.PathParams]
    /\ lookup'.procs[i].req # lookup.procs[i].req =>
         \A j \in 1..Len(lookup.procs) : j # i => lookup'.procs[j] = lookup.procs[j]

\* C40: GetHandler leaves the nodes and the Router values as they are and
\* writes only the path parameters of the request it was given; handlers that
\* look up side by side get the handler and the path parameters each would
\* get alone.
C40_LookupReadOnly == []AsAlone /\ [][RouterUntouched /\ OwnRequestOnly]_vars

C40_Witness ==
  /\ \A i \in 1..Len(lookup.procs) : lookup.procs[i].pc = "returned"
  /\ lookup.procs[1].handler = HandlerOf("h1", 1)
  /\ lookup.procs[1].req.PathParams = [k \in {<<"i", "d">>} |-> <<"7">>]
  /\ lookup.procs[2].handler = HandlerOf("h2", 1)
  /\ lookup.procs[2].req.PathParams = <<>>

\* ------------------------------------------------------ stored header names

\* The punctuation of a token of RFC 7230.
TokenPunctuation == {"!", "#", "$", "%", "&", "'", "*", "+", "-", ".", "^", "_", BQ, "|", "~"}

\* A byte of a stored name: a digit, a lower-case letter, or that punctuation.
LowerTokenByte(c) ==
  \/ c \in TokenPunctuation
  \/ Ord[c] >= Ord["0"] /\ Ord[c] <= Ord["9"]
  \/ Ord[c] >= Ord["a"] /\ Ord[c] <= Ord["z"]

LowerToken(name) == name # <<>> /\ \A i \in 1..Len(name) : LowerTokenByte(name[i])

\* C36: after Headers.Parse every name in the store is a lower-case token of
\* RFC 7230; a field line whose name is none is not stored.
C36_StoredNamesAreTokens ==
  lastOp.op = "parse" => \A name \in DOMAIN headers : LowerToken(name)

\* C36 for the inputs whose names are tokens or are refused by isToken.
StoredNamesAreTokensRefusable ==
  (\A i \in 1..Len(lastOp.lines) : lastOp.lines[i].kind = "notToken" => lastOp.lines[i].text \in Refusable)
    => C36_StoredNamesAreTokens

\* ------------------------------------------------- Request.parse, pass by pass

\* Leaving Request.parse with n bytes read and err.
parseReturns(r, n, err) == [r |-> r, read |-> n, err |-> err, ret |-> TRUE]

\* One pass of the loop of Request.parse after the switch, step being what the
\* case of the state did.
parsePassed(read, step) ==
  IF step.err # "nil" THEN parseReturns(step.r, 0, step.err)
  ELSE IF step.brk THEN parseReturns(step.r, read, "nil")
  ELSE [r |-> step.r, read |-> read + step.n, err |-> "nil", ret |-> FALSE]

\* In the error state the parser starts over.
parsePass_ErrorRestarts(r, data, read) ==
  IF Len(data) - read = 0 THEN parseReturns(r, read, "nil")
  ELSE IF r.state = "StateError" THEN [r |-> newRequest, read |-> read, err |-> "nil", ret |-> FALSE]
  ELSE IF r.state = "StateDone" THEN parseReturns(r, read, "nil")
  ELSE parsePassed(read, switchState(r, SubSeq(data, read + 1, Len(data))))

\* One pass of the loop of Request.parse over data, read bytes of it parsed.
parsePass(r, data, read) ==
  IF Len(data) - read = 0 THEN parseReturns(r, read, "nil")
  ELSE IF r.state = "StateError" THEN parseReturns(r, 0, "ErrReqInErrState")
  ELSE IF r.state = "StateDone" THEN parseReturns(r, read, "nil")
  ELSE parsePassed(read, switchState(r, SubSeq(data, read + 1, Len(data))))

\* A trailer line whose name is no token.
trailerLineBad == [name |-> <<"X", " ", "y">>, value |-> <<"w">>]

\* The requests parsed pass by pass: without a body, with a body of two bytes
\* and a byte after it, chunked without and with a trailer section, and one
\* that fails in each state that can fail.
PassInputs ==
  {Request(lineGet, <<>>),
   FramedInput(Absent, Number(<<"2">>, 2), <<"a", "b", "c">>),
   ChunkedInput(<<<<"a">>>>, "ok", FALSE, <<>>),
   ChunkedInput(<<<<"a">>>>, "ok", TRUE, <<trailerLine>>),
   ChunkedInput(<<>>, "ok", TRUE, <<trailerLineBad>>),
   ChunkedInput(<<<<"a">>>>, "badsize", FALSE, <<>>),
   Request(<<"G", " ", "/">>, <<>>),
   Request(lineGet, <<<<"H", " ", "s", "t", ":", " ", "a">>>>)}

\* The data of a call: the bytes not yet parsed and the next k of the stream.
DataOf(k) == buf \o SubSeq(stream, pos + 1, pos + k)

\* What a caller hands a parser that is done: nothing, a byte, or what is left.
DoneData == {<<>>, <<"G">>, DataOf(Len(stream) - pos)}

ParseCalled(data, k) ==
  /\ buf' = data
  /\ pos' = pos + k
  /\ pc' = "pass"
  /\ result' = [from |-> request.state, read |-> 0, n |-> 0, err |-> "nil"]
  /\ UNCHANGED <<input, stream, request, headerVars, routerVars, writerVars, serverVars>>

\* A call of parse while the request is not done, with more of the stream.
ParseCall ==
  /\ pc = "call"
  /\ ~done(request)
  /\ \E k \in ReadSizes : ParseCalled(DataOf(k), k)

\* A call of parse on a request that is done.
ParseCallDone ==
  /\ pc = "call"
  /\ done(request)
  /\ result.from \notin {"StateDone", "StateError"}
  /\ \E data \in DoneData : ParseCalled(data, 0)

Passed(p) ==
  /\ request' = p.r
  /\ IF p.ret
     THEN /\ pc' = "call"
          /\ result' = [result EXCEPT !.n = p.read, !.err = p.err]
          /\ buf' = SubSeq(buf, p.read + 1, Len(buf))
     ELSE /\ pc' = "pass"
          /\ result' = [result EXCEPT !.read = p.read]
          /\ buf' = buf
  /\ UNCHANGED <<input, stream, pos, headerVars, routerVars, writerVars, serverVars>>

\* One pass of the loop of the call.
ParsePass ==
  /\ pc = "pass"
  /\ Passed(parsePass(request, buf, result.read))

InitParse ==
  /\ WriterIdle
  /\ ServerIdle
  /\ HeadersIdle
  /\ RouterIdle
  /\ input \in PassInputs
  /\ stream = Wire(input)
  /\ pos = 0
  /\ buf = <<>>
  /\ request = newRequest
  /\ pc = "call"
  /\ result = [from |-> "none", read |-> 0, n |-> 0, err |-> "nil"]

NextParse == ParseCall \/ ParseCallDone \/ ParsePass

SpecParse == InitParse /\ [][NextParse]_vars

\* The transitions of the parser.
Transitions ==
  {<<"StateInit", "StateHeaders">>,
   <<"StateHeaders", "StateChunkLength">>, <<"StateHeaders", "StateBody">>, <<"StateHeaders", "StateDone">>,
   <<"StateBody", "StateDone">>,
   <<"StateChunkLength", "StateChunkData">>, <<"StateChunkLength", "StateTrailer">>,
   <<"StateChunkLength", "StateDone">>,
   <<"StateChunkData", "StateChunkLength">>,
   <<"StateTrailer", "StateDone">>}

Terminal(state) == state \in {"StateDone", "StateError"}

OnGraph ==
  \/ request'.state = request.state
  \/ <<request.state, request'.state>> \in Transitions
  \/ /\ ~Terminal(request.state)
     /\ request'.state = "StateError"
     /\ result'.err # "nil"
     /\ pc' = "call"

Frozen == Terminal(request.state) => request' = request

Returning == pc = "pass" /\ pc' = "call"

DoneAnswers == (Returning /\ result.from = "StateDone") => (result'.n = 0 /\ result'.err = "nil")

ErrorAnswers ==
  (Returning /\ result.from = "StateError") => (result'.n = 0 /\ result'.err = "ErrReqInErrState")

ErrorAnswersData ==
  (Returning /\ result.from = "StateError") =>
    /\ result'.n = 0
    /\ result'.err = IF buf = <<>> THEN "nil" ELSE "ErrReqInErrState"

\* C34: the state of the parser moves only along Init -> Headers,
\* Headers -> {ChunkLength, Body, Done}, Body -> Done,
\* ChunkLength -> {ChunkData, Trailer, Done}, ChunkData -> ChunkLength,
\* Trailer -> Done, and from a state that is not terminal to Error when parse
\* returns an error; in Done and Error the request no longer changes, a call of
\* parse in Done reads 0 bytes, and every call in Error returns
\* ErrReqInErrState and 0 bytes.
C34_ParserStateGraph == [][OnGraph /\ Frozen /\ DoneAnswers /\ ErrorAnswers]_vars

\* C34 as the code has it: a call in Error returns ErrReqInErrState and 0
\* bytes if it is handed at least one byte, and no error and 0 bytes if it is
\* handed none.
C34_ParserStateGraphData == [][OnGraph /\ Frozen /\ DoneAnswers /\ ErrorAnswersData]_vars

C34_Witness ==
  /\ pc = "call"
  /\ request.state = "StateError"
  /\ result.from = "StateError"
  /\ result.err = "ErrReqInErrState"
  /\ input.trailers = <<trailerLineBad>>

\* --------------------------------------------- the read buffer when it is full

\* reader.Read(buf[bufLen:]) with a buffer of cap bytes: it delivers no more
\* than fit, and nothing, without error, once the buffer is full.
ReadInto(k, cap) == ReadBytes(Min(k, cap - Len(buf)))

\* The capacity of the read buffer, scaled down from BufCap.
MaxBuf == 32

Long(n) == [i \in 1..n |-> "a"]

LongChunk(data) ==
  [ChunkedInput(<<>>, "ok", FALSE, <<>>) EXCEPT
     !.chunks = <<[size |-> FormatHex(Len(data)), data |-> data, after |-> sepCRLF]>>]

LongSize(data) ==
  [ChunkedInput(<<>>, "ok", FALSE, <<>>) EXCEPT
     !.chunks = <<[size |-> Long(MaxBuf) \o FormatHex(Len(data)), data |-> data, after |-> sepCRLF]>>]

\* Requests whose every line fits the buffer, one with a body longer than the
\* buffer, one whose stream ends inside the body, and requests with a request line, a field line, a chunk-size line
\* and a chunk longer than the buffer.
BufferInputs ==
  {Request(lineGet, <<>>),
   Request(lineGet, <<<<"H", "o", "s", "t", ":", " ", "a">>>>),
   ChunkedInput(<<<<"a">>>>, "ok", FALSE, <<>>),
   FramedInput(Absent, Number(Itoa(MaxBuf + 8), MaxBuf + 8), Long(MaxBuf + 8)),
   FramedInput(Absent, Number(Itoa(MaxBuf + 8), MaxBuf + 8), Long(MaxBuf)),
   Request(<<"G", " ", "/">> \o Long(MaxBuf) \o <<" ", "H", "T", "T", "P", "/", "1", ".", "1">>, <<>>),
   Request(lineGet, <<<<"X", ":", " ">> \o Long(MaxBuf)>>),
   LongSize(<<"a">>),
   LongChunk(Long(MaxBuf + 8))}

\* One iteration of the loop of RequestFromReader while the stream has bytes.
BufferReadStep ==
  /\ pc = "loop"
  /\ ~done(request)
  /\ \E k \in ReadSizes : ReadInto(k, MaxBuf)

\* The stream has ended: reader.Read returns io.EOF.
BufferEOF ==
  /\ pc = "loop"
  /\ ~done(request)
  /\ pos = Len(stream)
  /\ result' = [req |-> Nil, err |-> "io.EOF"]
  /\ pc' = "returned"
  /\ UNCHANGED <<input, stream, pos, buf, request, headerVars, routerVars, writerVars, serverVars>>

InitBuffer == InitWith(BufferInputs)

NextBuffer == BufferReadStep \/ BufferEOF \/ Finish

SpecBuffer == InitBuffer /\ [][NextBuffer]_vars

\* An iteration that changes something: the stream has ended and Read returns
\* io.EOF, or the buffer has room and Read delivers at least one byte, or parse
\* takes bytes out of the buffer, changes the request or fails.
Progresses ==
  \/ pos = Len(stream)
  \/ Len(buf) < MaxBuf
  \/ parse(request, buf).n > 0
  \/ parse(request, buf).err # "nil"
  \/ parse(request, buf).r # request

\* C37: RequestFromReader returns after finitely many iterations, whatever the
\* lengths of the lines and chunks of the stream: until it has returned, every
\* iteration is the last one or moves forward in the stream.
C37_ReadLoopTerminates == pc = "returned" \/ done(request) \/ Progresses

\* Every line of the stream, with its CRLF, fits the buffer.
Fits ==
  \A i \in 1..(Len(stream) - MaxBuf) :
    \E j \in i..(i + MaxBuf - 2) : stream[j] = CR /\ stream[j + 1] = LF

\* The loop does return when the lines fit, and it stops moving only with a
\* full buffer and bytes left in the stream.
ReadLoopTerminatesWhenFits ==
  /\ Fits => C37_ReadLoopTerminates
  /\ ~C37_ReadLoopTerminates => (Len(buf) = MaxBuf /\ pos < Len(stream))

\* The bytes the loop may hand parse next.
Filled(k) == buf \o SubSeq(stream, pos + 1, pos + Min(k, MaxBuf - Len(buf)))

BufferAccounted ==
  pc = "loop" =>
    /\ Len(buf) <= MaxBuf
    /\ Len(buf) <= pos
    /\ buf = SubSeq(stream, pos - Len(buf) + 1, pos)
    /\ \A k \in ReadSizes :
         /\ parse(request, Filled(k)).n >= 0
         /\ parse(request, Filled(k)).n <= Len(Filled(k))

Compacted ==
  (pc = "loop" /\ pc' = "loop") =>
    buf' = SubSeq(buf \o SubSeq(stream, pos + 1, pos'),
                  parse(request, buf \o SubSeq(stream, pos + 1, pos')).n + 1,
                  Len(buf) + pos' - pos)

\* C38: in every iteration parse reads between 0 and bufLen bytes, the buffer
\* holds the bytes delivered and not yet parsed, in the order of the stream,
\* and never more than its capacity.
C38_BufferAccounting == []BufferAccounted /\ [][Compacted]_vars

C38_Witness ==
  /\ pc = "loop"
  /\ Len(buf) = MaxBuf
  /\ pos < Len(stream)
  /\ request.state = "StateHeaders"

====
